---- MODULE Spec2Model ----
(***************************************************************************)
(* A model of the deterministic execution and replay core of oracle.omen:  *)
(* the content hash and canonical encoding, the agent state container,    *)
(* the append-only event log, the replay engine, the planning DAG and the  *)
(* scheduler.  Every definition is translated from the Rust source; the    *)
(* names are the source's, prefixed by the type they belong to.            *)
(***************************************************************************)
EXTENDS Integers, Sequences, FiniteSets, TLC

VARIABLES
    agent,      \* an AgentState: [version, data, state_hash]
    agentCall,  \* the last AgentState operation and its result
    log,        \* an EventLog: [run_id, events, index]
    logCall,    \* the last EventLog / ReplayEngine operation and its result
    engines,    \* <<>> or the two ReplayEngines made from log
    dag,        \* a Dag: [nodes, edges, reverse_edges]
    dagCall,    \* the last Dag operation and its result
    sched,      \* a Scheduler: [ready, pending, running, max_concurrent]
    schedPhase, \* "none", "new", "initialized" or "failed" (initialize: Err)
    schedCall,  \* the last Scheduler operation and its result
    returned,   \* the node ids next() has returned, in order
    started,    \* the node ids passed to start()
    completes,  \* the number of complete() calls
    policies,   \* the policies of a PolicyEngine, in add_policy order
    policyCall, \* the last PolicyEngine operation and its result
    store,      \* a PatchStore: patch id -> [patch, status]
    applied,    \* PatchEngine::applied: patch id -> AppliedPatch
    patchPhase, \* "store" while the PatchStore is filled, then "engine"
    patchCall,  \* the last PatchStore / PatchEngine operation and its result
    plan,       \* a Plan's steps, in add_step order
    planCall,   \* the last PlanValidator / PlanCompiler operation and its result
    checker,    \* the granted CapabilitySet of a CapabilityChecker
    capCall,    \* the last capability operation and its result
    mem,        \* the MemoryStores of two replicas and what each was written
    memCall,    \* the last MemoryStore operation and its result
    clock,      \* the AtomicU64 sequence of a StandardTimeSource
    clockCall,  \* what the threads' tick() and now() calls have returned
    manager,    \* SnapshotManager::snapshots: position -> Snapshot
    managerAdds, \* the snapshots passed to SnapshotManager::add, in order
    managerCall \* the last SnapshotManager operation and its result

agentVars == <<agent, agentCall>>
logVars == <<log, logCall, engines>>
planVars ==
    <<dag, dagCall, sched, schedPhase, schedCall, returned, started,
      completes>>
policyVars == <<policies, policyCall>>
patchVars == <<store, applied, patchPhase, patchCall>>
dslVars == <<plan, planCall>>
capVars == <<checker, capCall>>
memVars == <<mem, memCall>>
clockVars == <<clock, clockCall>>
snapVars == <<manager, managerAdds, managerCall>>
coreVars == <<agentVars, logVars, planVars, policyVars, patchVars>>
moreVars == <<dslVars, capVars, memVars, clockVars>>
vars ==
    <<agent, agentCall, log, logCall, engines, dag, dagCall, sched,
      schedPhase, schedCall, returned, started, completes, policies,
      policyCall, store, applied, patchPhase, patchCall, plan, planCall,
      checker, capCall, mem, memCall, clock, clockCall, manager,
      managerAdds, managerCall>>

(***************************************************************************)
(* Bounds of the model.                                                    *)
(***************************************************************************)
MaxVersion == 3
MaxLen == 3
MaxEdges == 3
MaxConcurrent == 2
MaxRules == 2
MaxStored == 1

\* The run ids of the model: the log's own (42, as in the source's tests) and
\* a foreign one.
RunIds == {41, 42}
LogRunId == 42

(***************************************************************************)
(* Option<T>: None is the empty sequence, Some(x) the one-element one.     *)
(***************************************************************************)
None == <<>>
Some(x) == <<x>>
is_some(o) == o # None
unwrap(o) == o[1]

(***************************************************************************)
(* hash.rs.  A Hash is 32 bytes; BLAKE3 is modelled as collision free: the *)
(* digest of a byte string is the byte string under a "blake3" tag, and    *)
(* the all-zero hash is a value no digest equals.  The second component    *)
(* names the type that was serialised (the JSON texts of different types   *)
(* differ).                                                                *)
(***************************************************************************)
Hash_zero == <<"zero">>
Hash_from_bytes(ty, bytes) == <<"blake3", ty, bytes>>

(***************************************************************************)
(* serde_utils.rs / serde_json: a BTreeMap is written as its entries in    *)
(* ascending key order.  KeyOrder is the lexicographic order of the keys   *)
(* the model uses ('_' < 'c' < 'e' < 'k' < 's' < 't').                     *)
(***************************************************************************)
KeyOrder ==
    <<"_event_hash", "_rollback", "config", "config.test", "event_0",
      "event_1", "event_2", "event_3", "event_4", "event_5", "key", "system",
      "system_prompt", "test">>

SortedKeys(S) == SelectSeq(KeyOrder, LAMBDA k : k \in S)

CanonicalJson_serialize_map(m) ==
    LET ks == SortedKeys(DOMAIN m)
    IN  [i \in 1..Len(ks) |-> <<ks[i], m[ks[i]]>>]

EmptyMap == [k \in {} |-> None]

BTreeMap_insert(m, k, v) ==
    [x \in (DOMAIN m) \cup {k} |-> IF x = k THEN v ELSE m[x]]

BTreeMap_remove(m, k) == [x \in (DOMAIN m) \ {k} |-> m[x]]

(***************************************************************************)
(* state.rs: AgentState.                                                   *)
(***************************************************************************)
StateValue_U64(n) == <<"U64", n>>
StateValue_Hash(h) == <<"Hash", h>>
StateValue_String(s) == <<"String", s>>
StateData_Value(v) == <<"Value", v>>

Hash_from_canonical_data(data) ==
    Hash_from_bytes("data", CanonicalJson_serialize_map(data))

AgentState_rehash(s) ==
    [s EXCEPT !.state_hash = Hash_from_canonical_data(s.data)]

AgentState_initial ==
    [version |-> 0, data |-> EmptyMap, state_hash |-> Hash_zero]

AgentState_with_run_id(run_id) ==
    AgentState_rehash(
        [AgentState_initial EXCEPT
            !.data = BTreeMap_insert(@, "system",
                                     StateData_Value(StateValue_U64(run_id)))])

AgentState_set(s, domain, d) ==
    AgentState_rehash(
        [s EXCEPT !.data = BTreeMap_insert(@, domain, d),
                  !.version = @ + 1])

\* remove as it would be if it bumped the version and rehashed whether or not
\* the domain was present.
AgentState_remove_always_bumps(s, domain) ==
    AgentState_rehash(
        [s EXCEPT !.data = BTreeMap_remove(@, domain),
                  !.version = @ + 1])

AgentState_remove(s, domain) ==
    IF domain \in DOMAIN s.data
    THEN AgentState_rehash(
            [s EXCEPT !.data = BTreeMap_remove(@, domain),
                      !.version = @ + 1])
    ELSE s

AgentState_hash(s) == s.state_hash

AgentState_matches(s, t) == s.state_hash = t.state_hash

(***************************************************************************)
(* The agent-state machine: a state made by initial() or with_run_id(r),   *)
(* then any sequence of set and remove calls.                              *)
(***************************************************************************)
StateDomains == {"key", "system", "test"}
StateDatas == {StateData_Value(StateValue_U64(n)) : n \in RunIds}

AgentInit ==
    /\ manager = <<>>
    /\ managerAdds = <<>>
    /\ managerCall = [op |-> "none"]
    /\ plan = <<>>
    /\ planCall = [op |-> "none"]
    /\ checker = {}
    /\ capCall = [op |-> "none"]
    /\ mem = <<>>
    /\ memCall = [op |-> "none"]
    /\ clock = 0
    /\ clockCall = [op |-> "none"]
    /\ agent \in {AgentState_initial} \cup
                 {AgentState_with_run_id(r) : r \in RunIds}
    /\ agentCall = [op |-> "new", domain |-> "", existed |-> FALSE]
    /\ log = [run_id |-> 0, events |-> <<>>, index |-> [k \in {} |-> 0]]
    /\ logCall = [op |-> "none"]
    /\ engines = <<>>
    /\ dag = [nodes |-> {}, edges |-> [n \in {} |-> {}],
              reverse_edges |-> [n \in {} |-> {}]]
    /\ dagCall = [op |-> "none"]
    /\ sched = [ready |-> <<>>, pending |-> [n \in {} |-> <<>>],
                running |-> {}, max_concurrent |-> 0]
    /\ schedPhase = "none"
    /\ schedCall = [op |-> "none"]
    /\ returned = <<>>
    /\ started = {}
    /\ completes = 0
    /\ policies = <<>>
    /\ policyCall = [op |-> "none"]
    /\ store = [id \in {} |-> <<>>]
    /\ applied = [id \in {} |-> <<>>]
    /\ patchPhase = "none"
    /\ patchCall = [op |-> "none"]

Set(domain, d) ==
    /\ agent.version < MaxVersion
    /\ agent' = AgentState_set(agent, domain, d)
    /\ agentCall' = [op |-> "set", domain |-> domain,
                     existed |-> domain \in DOMAIN agent.data]
    /\ UNCHANGED <<snapVars, logVars, planVars, policyVars,
                   patchVars,
                   moreVars>>

Remove(domain) ==
    /\ agent.version < MaxVersion
    /\ agent' = AgentState_remove(agent, domain)
    /\ agentCall' = [op |-> "remove", domain |-> domain,
                     existed |-> domain \in DOMAIN agent.data]
    /\ UNCHANGED <<snapVars, logVars, planVars, policyVars,
                   patchVars,
                   moreVars>>

AgentNext ==
    \/ \E domain \in StateDomains, d \in StateDatas : Set(domain, d)
    \/ \E domain \in StateDomains : Remove(domain)

(***************************************************************************)
(* event.rs: EventId, Event, EventPayload.                                 *)
(***************************************************************************)
EventId_new(run_id, sequence) == [run_id |-> run_id, sequence |-> sequence]

LogicalTime_new(run_id, sequence) == [run_id |-> run_id, sequence |-> sequence]

Hash_to_hex(h) == <<"hex", h>>

AgentInitPayload(agent_type) ==
    [variant |-> "AgentInit", agent_type |-> agent_type,
     agent_version |-> "1.0.0", config |-> EmptyMap]

ObservationPayload(obs_type) ==
    [variant |-> "Observation", obs_type |-> obs_type, data |-> EmptyMap,
     source |-> "s"]

StateTransitionPayload(from_hash, to_hash) ==
    [variant |-> "StateTransition", from_hash |-> from_hash,
     to_hash |-> to_hash, transition_type |-> "step"]

\* serde_json writes an enum as {variant: {field: value, ...}}, the fields in
\* declaration order, a map by ascending key and a Hash as its hex string.
CanonicalJson_serialize_payload(p) ==
    CASE p.variant = "AgentInit" ->
            <<"AgentInit", <<"agent_type", p.agent_type>>,
              <<"agent_version", p.agent_version>>,
              <<"config", CanonicalJson_serialize_map(p.config)>> >>
      [] p.variant = "Observation" ->
            <<"Observation", <<"obs_type", p.obs_type>>,
              <<"data", CanonicalJson_serialize_map(p.data)>>,
              <<"source", p.source>> >>
      [] p.variant = "StateTransition" ->
            <<"StateTransition", <<"from_hash", Hash_to_hex(p.from_hash)>>,
              <<"to_hash", Hash_to_hex(p.to_hash)>>,
              <<"transition_type", p.transition_type>> >>

EventPayload_hash(p) ==
    Hash_from_bytes("payload", CanonicalJson_serialize_payload(p))

EventPayload_kind(p) == p.variant

SerializeId(id) == <<id.run_id, id.sequence>>

\* An Option is serialized as null or as its content.
SerializeOptionId(o) == IF is_some(o) THEN <<SerializeId(unwrap(o))>> ELSE <<>>

SerializeOptionHash(o) ==
    IF is_some(o) THEN <<Hash_to_hex(unwrap(o))>> ELSE <<>>

CanonicalJson_serialize_event(e) ==
    <<"Event", <<"id", SerializeId(e.id)>>,
      <<"parent_id", SerializeOptionId(e.parent_id)>>,
      <<"kind", e.kind>>,
      <<"timestamp", SerializeId(e.timestamp)>>,
      <<"payload", CanonicalJson_serialize_payload(e.payload)>>,
      <<"payload_hash", Hash_to_hex(e.payload_hash)>>,
      <<"state_hash_before", SerializeOptionHash(e.state_hash_before)>>,
      <<"state_hash_after", SerializeOptionHash(e.state_hash_after)>> >>

Event_event_hash(e) ==
    Hash_from_bytes("event", CanonicalJson_serialize_event(e))

Event_verify_payload_hash(e) == e.payload_hash = EventPayload_hash(e.payload)

(***************************************************************************)
(* event.rs: EventLog.  events is the Vec<Event> (TLA+ position i + 1 is   *)
(* the Vec's index i); index is the BTreeMap<EventId, usize>.              *)
(***************************************************************************)
EventLog_new(run_id) ==
    [run_id |-> run_id, events |-> <<>>, index |-> [k \in {} |-> 0]]

EventLog_len(l) == Len(l.events)

EventLog_get_by_sequence(l, seq) ==
    IF seq < Len(l.events) THEN Some(l.events[seq + 1]) ELSE None

EventLog_get(l, id) ==
    IF id \in DOMAIN l.index
    THEN EventLog_get_by_sequence(l, l.index[id])
    ELSE None

\* append as it would be without the sequence check.
EventLog_append_no_sequence_check(l, event) ==
    IF event.id.run_id # l.run_id
    THEN [result |-> "CorruptedLog", log |-> l]
    ELSE IF is_some(event.parent_id)
            /\ unwrap(event.parent_id) \notin DOMAIN l.index
    THEN [result |-> "ParentNotFound", log |-> l]
    ELSE IF ~Event_verify_payload_hash(event)
    THEN [result |-> "HashMismatch", log |-> l]
    ELSE [result |-> "Ok",
          log |-> [l EXCEPT
                     !.index = BTreeMap_insert(@, event.id, Len(l.events)),
                     !.events = Append(@, event)]]

\* append as it would be if only a sequence beyond len() were refused.
EventLog_append_sequence_gt(l, event) ==
    IF event.id.run_id # l.run_id
    THEN [result |-> "CorruptedLog", log |-> l]
    ELSE IF event.id.sequence > Len(l.events)
    THEN [result |-> "CorruptedLog", log |-> l]
    ELSE IF is_some(event.parent_id)
            /\ unwrap(event.parent_id) \notin DOMAIN l.index
    THEN [result |-> "ParentNotFound", log |-> l]
    ELSE IF ~Event_verify_payload_hash(event)
    THEN [result |-> "HashMismatch", log |-> l]
    ELSE [result |-> "Ok",
          log |-> [l EXCEPT
                     !.index = BTreeMap_insert(@, event.id, Len(l.events)),
                     !.events = Append(@, event)]]

\* append as it would be without the parent lookup.
EventLog_append_no_parent_check(l, event) ==
    IF event.id.run_id # l.run_id
    THEN [result |-> "CorruptedLog", log |-> l]
    ELSE IF event.id.sequence # Len(l.events)
    THEN [result |-> "CorruptedLog", log |-> l]
    ELSE IF ~Event_verify_payload_hash(event)
    THEN [result |-> "HashMismatch", log |-> l]
    ELSE [result |-> "Ok",
          log |-> [l EXCEPT
                     !.index = BTreeMap_insert(@, event.id, Len(l.events)),
                     !.events = Append(@, event)]]

\* append as it would be without the payload-hash verification.
EventLog_append_no_hash_check(l, event) ==
    IF event.id.run_id # l.run_id
    THEN [result |-> "CorruptedLog", log |-> l]
    ELSE IF event.id.sequence # Len(l.events)
    THEN [result |-> "CorruptedLog", log |-> l]
    ELSE IF is_some(event.parent_id)
            /\ unwrap(event.parent_id) \notin DOMAIN l.index
    THEN [result |-> "ParentNotFound", log |-> l]
    ELSE [result |-> "Ok",
          log |-> [l EXCEPT
                     !.index = BTreeMap_insert(@, event.id, Len(l.events)),
                     !.events = Append(@, event)]]

\* append as it would be if an event whose sequence is already taken
\* replaced the stored one instead of being rejected.
EventLog_append_overwrites(l, event) ==
    IF event.id.run_id # l.run_id
    THEN [result |-> "CorruptedLog", log |-> l]
    ELSE IF event.id.sequence > Len(l.events)
    THEN [result |-> "CorruptedLog", log |-> l]
    ELSE IF event.id.sequence < Len(l.events)
    THEN [result |-> "Ok",
          log |-> [l EXCEPT !.events[event.id.sequence + 1] = event]]
    ELSE [result |-> "Ok",
          log |-> [l EXCEPT
                     !.index = BTreeMap_insert(@, event.id, Len(l.events)),
                     !.events = Append(@, event)]]

EventLog_append(l, event) ==
    IF event.id.run_id # l.run_id
    THEN [result |-> "CorruptedLog", log |-> l]
    ELSE IF event.id.sequence # Len(l.events)
    THEN [result |-> "CorruptedLog", log |-> l]
    ELSE IF is_some(event.parent_id)
            /\ unwrap(event.parent_id) \notin DOMAIN l.index
    THEN [result |-> "ParentNotFound", log |-> l]
    ELSE IF ~Event_verify_payload_hash(event)
    THEN [result |-> "HashMismatch", log |-> l]
    ELSE [result |-> "Ok",
          log |-> [l EXCEPT
                     !.index = BTreeMap_insert(@, event.id, Len(l.events)),
                     !.events = Append(@, event)]]

(***************************************************************************)
(* replay.rs: ReplayEngine.  applied is a history variable of the model:   *)
(* the sequence numbers of the events apply_event was called with.         *)
(***************************************************************************)
ReplayEngine_with_state(l, initial_state) ==
    [log |-> l, current_state |-> initial_state, position |-> 0,
     applied |-> <<>>]

ReplayEngine_new(l) == ReplayEngine_with_state(l, AgentState_initial)

format_event_key(sequence) == SubSeq(KeyOrder, 5, 10)[sequence + 1]

ReplayEngine_apply_event(current_state, event) ==
    IF event.payload.variant = "StateTransition"
    THEN LET s1 == IF is_some(event.state_hash_before)
                      /\ AgentState_hash(current_state)
                            # unwrap(event.state_hash_before)
                   THEN AgentState_with_run_id(event.id.run_id)
                   ELSE current_state
         IN  IF is_some(event.state_hash_after)
             THEN AgentState_set(s1, "_event_hash",
                     StateData_Value(
                        StateValue_Hash(unwrap(event.state_hash_after))))
             ELSE s1
    ELSE AgentState_set(current_state, format_event_key(event.id.sequence),
            StateData_Value(StateValue_Hash(Event_event_hash(event))))

ReplayEngine_is_complete(e) == e.position >= EventLog_len(e.log)

\* step() as it would be if it stopped one event short of the end.
ReplayEngine_step_stops_early(e) ==
    LET event == EventLog_get_by_sequence(e.log, e.position)
    IN  IF ~is_some(event) \/ e.position + 1 >= EventLog_len(e.log)
        THEN e
        ELSE [e EXCEPT
                !.current_state = ReplayEngine_apply_event(@, unwrap(event)),
                !.applied = Append(@, unwrap(event).id.sequence),
                !.position = @ + 1]

\* step(): None at the end of the log, else apply the event and advance.
ReplayEngine_step(e) ==
    LET event == EventLog_get_by_sequence(e.log, e.position)
    IN  IF ~is_some(event)
        THEN e
        ELSE [e EXCEPT
                !.current_state = ReplayEngine_apply_event(@, unwrap(event)),
                !.applied = Append(@, unwrap(event).id.sequence),
                !.position = @ + 1]

\* replay_all(): while self.step().is_some() {}
RECURSIVE ReplayEngine_replay_all(_)
ReplayEngine_replay_all(e) ==
    LET next == ReplayEngine_step(e)
    IN  IF next # e THEN ReplayEngine_replay_all(next) ELSE e

RECURSIVE CountVerified(_, _)
CountVerified(l, i) ==
    IF i >= EventLog_len(l)
    THEN [verified_events |-> 0, hash_failures |-> 0]
    ELSE LET rest == CountVerified(l, i + 1)
             event == EventLog_get_by_sequence(l, i)
         IN  IF ~is_some(event)
             THEN rest
             ELSE IF Event_verify_payload_hash(unwrap(event))
             THEN [rest EXCEPT !.verified_events = @ + 1]
             ELSE [rest EXCEPT !.hash_failures = @ + 1]

ReplayEngine_verify(e) ==
    LET c == CountVerified(e.log, 0)
    IN  [total_events |-> EventLog_len(e.log),
         verified_events |-> c.verified_events,
         hash_failures |-> c.hash_failures,
         state_mismatches |-> 0]

VerificationReport_is_valid(report) ==
    report.hash_failures = 0 /\ report.state_mismatches = 0

(***************************************************************************)
(* The event-log machine.  A controller appends events it is handed (any   *)
(* id, parent, timestamp, payload, payload hash and state hashes of the    *)
(* bounded sets below), then builds two replay engines from the log and    *)
(* drives them.                                                            *)
(***************************************************************************)
Payloads ==
    {AgentInitPayload("echo"),
     StateTransitionPayload(Hash_zero, Hash_from_canonical_data(EmptyMap))}

OtherPayload == ObservationPayload("other")

EventIds == {EventId_new(r, s) : r \in RunIds, s \in 0..MaxLen}

\* The parents an event may name: none, the first id of the log's run (the
\* event's own id, or one that is stored once the log is not empty), an id
\* of the log's run that is never stored, and an id of the foreign run.
ParentIds ==
    {None} \cup {Some(EventId_new(LogRunId, s)) : s \in {0, MaxLen}}
           \cup {Some(EventId_new(41, 0))}

\* The state hashes a recorder may attach: none, or a (before, after) pair.
StateHashPairs(p) ==
    IF p.variant = "StateTransition"
    THEN {<<None, None>>,
          <<Some(Hash_zero), Some(Hash_from_canonical_data(EmptyMap))>>}
    ELSE {<<None, None>>}

\* Event::new / Event::with_parent / with_state_hashes, and a forged
\* payload_hash (the fields are public).
EventsOf(p) ==
    { [id |-> id, parent_id |-> parent, kind |-> EventPayload_kind(p),
       timestamp |-> LogicalTime_new(id.run_id, id.sequence),
       payload |-> p, payload_hash |-> h,
       state_hash_before |-> sh[1], state_hash_after |-> sh[2]] :
      id \in EventIds,
      parent \in ParentIds,
      h \in {EventPayload_hash(p), EventPayload_hash(OtherPayload)},
      sh \in StateHashPairs(p) }

\* Event::new(id, kind, timestamp, payload): the timestamp is an argument of
\* its own, not derived from the id.
Event_new(id, kind, timestamp, payload) ==
    [id |-> id, parent_id |-> None, kind |-> kind, timestamp |-> timestamp,
     payload |-> payload, payload_hash |-> EventPayload_hash(payload),
     state_hash_before |-> None, state_hash_after |-> None]

Events == UNION {EventsOf(p) : p \in Payloads}

\* Whether p is the id of an event the log stores (None: no parent given).
ParentClass(l, parent_id) ==
    IF ~is_some(parent_id) THEN "none"
    ELSE IF \E i \in 1..Len(l.events) : l.events[i].id = unwrap(parent_id)
    THEN "stored"
    ELSE "missing"

LogInit ==
    /\ manager = <<>>
    /\ managerAdds = <<>>
    /\ managerCall = [op |-> "none"]
    /\ plan = <<>>
    /\ planCall = [op |-> "none"]
    /\ checker = {}
    /\ capCall = [op |-> "none"]
    /\ mem = <<>>
    /\ memCall = [op |-> "none"]
    /\ clock = 0
    /\ clockCall = [op |-> "none"]
    /\ log = EventLog_new(LogRunId)
    /\ logCall = [op |-> "new"]
    /\ engines = <<>>
    /\ agent = AgentState_initial
    /\ agentCall = [op |-> "none", domain |-> "", existed |-> FALSE]
    /\ dag = [nodes |-> {}, edges |-> [n \in {} |-> {}],
              reverse_edges |-> [n \in {} |-> {}]]
    /\ dagCall = [op |-> "none"]
    /\ sched = [ready |-> <<>>, pending |-> [n \in {} |-> <<>>],
                running |-> {}, max_concurrent |-> 0]
    /\ schedPhase = "none"
    /\ schedCall = [op |-> "none"]
    /\ returned = <<>>
    /\ started = {}
    /\ completes = 0
    /\ policies = <<>>
    /\ policyCall = [op |-> "none"]
    /\ store = [id \in {} |-> <<>>]
    /\ applied = [id \in {} |-> <<>>]
    /\ patchPhase = "none"
    /\ patchCall = [op |-> "none"]

\* log.append(event); logCall records what was passed and what came back.
AppendEvent(event) ==
    /\ engines = <<>>
    /\ EventLog_len(log) < MaxLen
    /\ LET r == EventLog_append(log, event)
       IN  /\ log' = r.log
           /\ logCall' = [op |-> "append", result |-> r.result,
                          run_ok |-> (event.id.run_id = log.run_id),
                          seq_ok |-> (event.id.sequence = EventLog_len(log)),
                          parent |-> ParentClass(log, event.parent_id),
                          hash_ok |-> (event.payload_hash
                                       = EventPayload_hash(event.payload))]
    /\ UNCHANGED <<snapVars, engines, agentVars, planVars, policyVars,
                   patchVars,
                   moreVars>>

\* ReplayEngine::new(log.clone()) or with_state(log.clone(), s0), twice.
NewEngines(s0) ==
    /\ engines = <<>>
    /\ engines' = <<ReplayEngine_with_state(log, s0),
                    ReplayEngine_with_state(log, s0)>>
    /\ logCall' = [op |-> "new_engines"]
    /\ UNCHANGED <<snapVars, log, agentVars, planVars, policyVars,
                   patchVars,
                   moreVars>>

Step(i) ==
    /\ engines # <<>>
    /\ engines' = [engines EXCEPT ![i] = ReplayEngine_step(@)]
    /\ logCall' = [op |-> "step"]
    /\ UNCHANGED <<snapVars, log, agentVars, planVars, policyVars,
                   patchVars,
                   moreVars>>

ReplayAll(i) ==
    /\ engines # <<>>
    /\ engines' = [engines EXCEPT ![i] = ReplayEngine_replay_all(@)]
    /\ logCall' = [op |-> "replay_all", engine |-> i]
    /\ UNCHANGED <<snapVars, log, agentVars, planVars, policyVars,
                   patchVars,
                   moreVars>>

Verify(i) ==
    /\ engines # <<>>
    /\ logCall' = [op |-> "verify",
                   report |-> ReplayEngine_verify(engines[i])]
    /\ UNCHANGED <<snapVars, log, engines, agentVars, planVars, policyVars,
                   patchVars,
                   moreVars>>

LogNext ==
    \/ \E event \in Events : AppendEvent(event)
    \/ \E s0 \in {AgentState_initial, AgentState_with_run_id(log.run_id)} :
          NewEngines(s0)
    \/ \E i \in 1..2 : Step(i)
    \/ \E i \in 1..2 : ReplayAll(i)
    \/ \E i \in 1..2 : Verify(i)

\* Events as Event::new builds them when the caller passes a timestamp of its
\* own choice: the clock of either run, read at the sequence of the id.
StampedEvents ==
    {Event_new(id, EventPayload_kind(p), LogicalTime_new(r, id.sequence), p) :
        id \in EventIds, r \in RunIds, p \in Payloads}

\* The controller restricted to appending events built by Event::new.
StampNext == \E event \in StampedEvents : AppendEvent(event)

(***************************************************************************)
(* dag.rs: Dag.  nodes is the key set of the BTreeMap of DagNodes; edges   *)
(* and reverse_edges map a node id to a BTreeSet of node ids.              *)
(***************************************************************************)

\* The node ids of the model, in String's order.
NodeOrder == <<"a", "b", "c", "d", "e">>
NodeIds == {NodeOrder[i] : i \in 1..Len(NodeOrder)}

\* The iteration order of a BTreeSet<String>, and a sorted Vec<String>.
SortedNodes(S) == SelectSeq(NodeOrder, LAMBDA n : n \in S)

Range(q) == {q[i] : i \in 1..Len(q)}

Dag_new ==
    [nodes |-> {}, edges |-> [n \in {} |-> {}],
     reverse_edges |-> [n \in {} |-> {}]]

DagOk == <<"Ok">>
DuplicateNode(id) == <<"DuplicateNode", id>>
NodeNotFound(id) == <<"NodeNotFound", id>>
CycleDetected(from, to) == <<"CycleDetected", from, to>>

Dag_add_node(d, id) ==
    IF id \in d.nodes
    THEN [result |-> DuplicateNode(id), dag |-> d]
    ELSE [result |-> DagOk,
          dag |-> [nodes |-> d.nodes \cup {id},
                   edges |-> BTreeMap_insert(d.edges, id, {}),
                   reverse_edges |-> BTreeMap_insert(d.reverse_edges, id, {})]]

\* has_path(start, end, visited): depth-first search along edges; visited
\* is threaded through the calls.
RECURSIVE Dag_has_path(_, _, _, _)
RECURSIVE Dag_has_path_from(_, _, _, _)
Dag_has_path(d, start, end, visited) ==
    IF start = end THEN [found |-> TRUE, visited |-> visited]
    ELSE IF start \in visited THEN [found |-> FALSE, visited |-> visited]
    ELSE IF start \in DOMAIN d.edges
    THEN Dag_has_path_from(d, SortedNodes(d.edges[start]), end,
                           visited \cup {start})
    ELSE [found |-> FALSE, visited |-> visited \cup {start}]

\* The for loop of has_path over the successors deps of a node.
Dag_has_path_from(d, deps, end, visited) ==
    IF deps = <<>> THEN [found |-> FALSE, visited |-> visited]
    ELSE LET r == Dag_has_path(d, Head(deps), end, visited)
         IN  IF r.found THEN r
             ELSE Dag_has_path_from(d, Tail(deps), end, r.visited)

Dag_would_create_cycle(d, from, to) == Dag_has_path(d, to, from, {}).found

\* add_edge with a cycle check that looks only at from = to and at a direct
\* edge to -> from.
Dag_add_edge_direct_only(d, from, to) ==
    IF from \notin d.nodes THEN [result |-> NodeNotFound(from), dag |-> d]
    ELSE IF to \notin d.nodes THEN [result |-> NodeNotFound(to), dag |-> d]
    ELSE IF from = to \/ from \in d.edges[to]
    THEN [result |-> CycleDetected(from, to), dag |-> d]
    ELSE [result |-> DagOk,
          dag |-> [d EXCEPT !.edges[from] = @ \cup {to},
                            !.reverse_edges[to] = @ \cup {from}]]

\* add_edge without the insert into reverse_edges.
Dag_add_edge_forward_only(d, from, to) ==
    IF from \notin d.nodes THEN [result |-> NodeNotFound(from), dag |-> d]
    ELSE IF to \notin d.nodes THEN [result |-> NodeNotFound(to), dag |-> d]
    ELSE IF Dag_would_create_cycle(d, from, to)
    THEN [result |-> CycleDetected(from, to), dag |-> d]
    ELSE [result |-> DagOk, dag |-> [d EXCEPT !.edges[from] = @ \cup {to}]]

Dag_add_edge(d, from, to) ==
    IF from \notin d.nodes THEN [result |-> NodeNotFound(from), dag |-> d]
    ELSE IF to \notin d.nodes THEN [result |-> NodeNotFound(to), dag |-> d]
    ELSE IF Dag_would_create_cycle(d, from, to)
    THEN [result |-> CycleDetected(from, to), dag |-> d]
    ELSE [result |-> DagOk,
          dag |-> [d EXCEPT !.edges[from] = @ \cup {to},
                            !.reverse_edges[to] = @ \cup {from}]]

\* The in_degree map topological_order starts from: one per occurrence of a
\* node in a value of edges.
Dag_in_degree(d) ==
    [n \in d.nodes \cup UNION {d.edges[f] : f \in DOMAIN d.edges} |->
        Cardinality({f \in DOMAIN d.edges : n \in d.edges[f]})]

\* The while loop of topological_order: queue.pop() takes the last element of
\* the sorted queue, and the nodes whose degree is decremented are those of
\* reverse_edges[node].  A node is pushed at most once, so the sorted queue
\* is the sorted sequence of its element set.
RECURSIVE Dag_topological_loop(_, _, _, _)
Dag_topological_loop(d, in_degree, queue, result) ==
    IF queue = <<>> THEN result
    ELSE LET node == queue[Len(queue)]
             rest == SubSeq(queue, 1, Len(queue) - 1)
             deps == IF node \in DOMAIN d.reverse_edges
                     THEN d.reverse_edges[node] \cap DOMAIN in_degree
                     ELSE {}
             degree == [n \in DOMAIN in_degree |->
                          IF n \in deps THEN in_degree[n] - 1
                          ELSE in_degree[n]]
             pushed == {n \in deps : degree[n] = 0}
         IN  Dag_topological_loop(d, degree,
                                  SortedNodes(Range(rest) \cup pushed),
                                  Append(result, node))

Dag_topological_order(d) ==
    LET in_degree == Dag_in_degree(d)
        queue == SortedNodes({n \in DOMAIN in_degree : in_degree[n] = 0})
        result == Dag_topological_loop(d, in_degree, queue, <<>>)
    IN  IF Len(result) # Cardinality(d.nodes)
        THEN [ok |-> FALSE, order |-> <<>>,
              err |-> CycleDetected("unknown", "unknown")]
        ELSE [ok |-> TRUE, order |-> result, err |-> DagOk]

Dag_dependencies(d, id) == IF id \in DOMAIN d.edges THEN d.edges[id] ELSE {}

Dag_dependents(d, id) ==
    IF id \in DOMAIN d.reverse_edges THEN d.reverse_edges[id] ELSE {}

Dag_len(d) == Cardinality(d.nodes)

(***************************************************************************)
(* scheduler.rs: Scheduler.  ready is a VecDeque, pending a HashMap from a *)
(* node id to the Vec of what it waits for, running the key set of the     *)
(* HashMap of RunningTasks.                                                *)
(***************************************************************************)
Scheduler_new(max_concurrent) ==
    [ready |-> <<>>, pending |-> [n \in {} |-> <<>>], running |-> {},
     max_concurrent |-> max_concurrent]

\* The for loop of initialize over the topological order.
RECURSIVE Scheduler_initialize_loop(_, _, _)
Scheduler_initialize_loop(s, d, order) ==
    IF order = <<>> THEN s
    ELSE LET node_id == Head(order)
             dep_set == Dag_dependencies(d, node_id)
             s2 == IF dep_set = {}
                   THEN [s EXCEPT !.ready = Append(@, node_id)]
                   ELSE [s EXCEPT !.pending =
                           BTreeMap_insert(@, node_id, SortedNodes(dep_set))]
         IN  Scheduler_initialize_loop(s2, d, Tail(order))

Scheduler_initialize(s, d) ==
    LET order == Dag_topological_order(d)
    IN  IF ~order.ok
        THEN [result |-> <<"InvalidState", order.err>>, sched |-> s]
        ELSE [result |-> DagOk,
              sched |-> Scheduler_initialize_loop(s, d, order.order)]

Scheduler_next(s) ==
    IF Cardinality(s.running) >= s.max_concurrent
    THEN [result |-> None, sched |-> s]
    ELSE IF s.ready = <<>> THEN [result |-> None, sched |-> s]
    ELSE [result |-> Some(Head(s.ready)),
          sched |-> [s EXCEPT !.ready = Tail(@)]]

Scheduler_start(s, node_id) == [s EXCEPT !.running = @ \cup {node_id}]

\* deps.remove(pos) for the first position of node_id in deps.
RemoveFirst(deps, node_id) ==
    IF \E i \in 1..Len(deps) : deps[i] = node_id
    THEN LET pos == CHOOSE i \in 1..Len(deps) :
                       /\ deps[i] = node_id
                       /\ \A j \in 1..(i - 1) : deps[j] # node_id
         IN  SubSeq(deps, 1, pos - 1) \o SubSeq(deps, pos + 1, Len(deps))
    ELSE deps

\* The pending entries complete(node_id) releases.
Scheduler_newly_ready(s, node_id) ==
    {p \in DOMAIN s.pending :
        /\ node_id \in Range(s.pending[p])
        /\ RemoveFirst(s.pending[p], node_id) = <<>>}

\* complete(node_id); newly_ready is the released entries in the order the
\* iteration over the HashMap pending met them.
Scheduler_complete(s, node_id, newly_ready) ==
    [s EXCEPT !.running = @ \ {node_id},
              !.pending = [p \in (DOMAIN @) \ Range(newly_ready) |->
                             RemoveFirst(@[p], node_id)],
              !.ready = @ \o newly_ready]

Scheduler_is_complete(s) ==
    /\ s.ready = <<>>
    /\ s.running = {}
    /\ DOMAIN s.pending = {}

Scheduler_running_count(s) == Cardinality(s.running)

Scheduler_ready_count(s) == Len(s.ready)

(***************************************************************************)
(* The plan machine: a Dag built by add_node and add_edge calls, then a    *)
(* Scheduler made for it, initialized, and driven by next, start (of a     *)
(* node next returned) and complete (of a started node).                   *)
(***************************************************************************)

\* The orders in which a HashMap can iterate over the keys S.
Orders(S) ==
    {q \in [1..Cardinality(S) -> S] : \A i, j \in DOMAIN q :
                                          i # j => q[i] # q[j]}

\* The nodes reachable from the nodes S along edges (S included).
RECURSIVE Reachable(_, _)
Reachable(d, S) ==
    LET T == S \cup UNION {d.edges[n] : n \in S \cap DOMAIN d.edges}
    IN  IF T = S THEN S ELSE Reachable(d, T)

PathExists(d, start, end) ==
    /\ start \in d.nodes
    /\ end \in Reachable(d, {start})

EdgeCount(d) ==
    Cardinality({e \in d.nodes \X d.nodes : e[2] \in d.edges[e[1]]})

SchedInit ==
    /\ manager = <<>>
    /\ managerAdds = <<>>
    /\ managerCall = [op |-> "none"]
    /\ plan = <<>>
    /\ planCall = [op |-> "none"]
    /\ checker = {}
    /\ capCall = [op |-> "none"]
    /\ mem = <<>>
    /\ memCall = [op |-> "none"]
    /\ clock = 0
    /\ clockCall = [op |-> "none"]
    /\ dag = Dag_new
    /\ dagCall = [op |-> "new"]
    /\ sched = Scheduler_new(0)
    /\ schedPhase = "none"
    /\ schedCall = [op |-> "none"]
    /\ returned = <<>>
    /\ started = {}
    /\ completes = 0
    /\ agent = AgentState_initial
    /\ agentCall = [op |-> "none", domain |-> "", existed |-> FALSE]
    /\ log = [run_id |-> 0, events |-> <<>>, index |-> [k \in {} |-> 0]]
    /\ logCall = [op |-> "none"]
    /\ engines = <<>>
    /\ policies = <<>>
    /\ policyCall = [op |-> "none"]
    /\ store = [id \in {} |-> <<>>]
    /\ applied = [id \in {} |-> <<>>]
    /\ patchPhase = "none"
    /\ patchCall = [op |-> "none"]

AddNode(id) ==
    /\ schedPhase = "none"
    /\ LET r == Dag_add_node(dag, id)
       IN  /\ dag' = r.dag
           /\ dagCall' = [op |-> "add_node", result |-> r.result]
    /\ UNCHANGED <<snapVars, sched, schedPhase, schedCall, returned, started,
                   completes, agentVars, logVars, policyVars,
                   patchVars,
                   moreVars>>

AddEdge(from, to) ==
    /\ schedPhase = "none"
    /\ EdgeCount(dag) < MaxEdges
    /\ LET r == Dag_add_edge(dag, from, to)
       IN  /\ dag' = r.dag
           /\ dagCall' = [op |-> "add_edge", result |-> r.result,
                          closes |-> PathExists(dag, to, from),
                          named |-> (r.result = CycleDetected(from, to))]
    /\ UNCHANGED <<snapVars, sched, schedPhase, schedCall, returned, started,
                   completes, agentVars, logVars, policyVars,
                   patchVars,
                   moreVars>>

TopologicalOrder ==
    /\ schedPhase = "none"
    /\ dagCall' = [op |-> "topological_order",
                   result |-> Dag_topological_order(dag)]
    /\ UNCHANGED <<snapVars,
                   dag, sched, schedPhase, schedCall, returned, started,
                   completes, agentVars, logVars, policyVars,
                   patchVars,
                   moreVars>>

SchedulerNew(max_concurrent) ==
    /\ schedPhase = "none"
    /\ sched' = Scheduler_new(max_concurrent)
    /\ schedPhase' = "new"
    /\ schedCall' = [op |-> "new"]
    /\ UNCHANGED <<snapVars,
                   dag, dagCall, returned, started, completes, agentVars,
                   logVars, policyVars,
                   patchVars,
                   moreVars>>

Initialize ==
    /\ schedPhase = "new"
    /\ LET r == Scheduler_initialize(sched, dag)
       IN  /\ sched' = r.sched
           /\ schedPhase' = IF r.result = DagOk THEN "initialized"
                            ELSE "failed"
           /\ schedCall' = [op |-> "initialize", result |-> r.result]
    /\ UNCHANGED <<snapVars,
                   dag, dagCall, returned, started, completes, agentVars,
                   logVars, policyVars,
                   patchVars,
                   moreVars>>

SchedNext ==
    /\ schedPhase \in {"initialized", "failed"}
    /\ LET r == Scheduler_next(sched)
       IN  /\ sched' = r.sched
           /\ schedCall' = [op |-> "next", result |-> r.result]
           /\ returned' = IF is_some(r.result)
                          THEN Append(returned, unwrap(r.result))
                          ELSE returned
    /\ UNCHANGED <<snapVars,
                   dag, dagCall, schedPhase, started, completes, agentVars,
                   logVars, policyVars,
                   patchVars,
                   moreVars>>

SchedStart(node_id) ==
    /\ schedPhase = "initialized"
    /\ node_id \in Range(returned) \ started
    /\ sched' = Scheduler_start(sched, node_id)
    /\ started' = started \cup {node_id}
    /\ schedCall' = [op |-> "start", result |-> Some(node_id)]
    /\ UNCHANGED <<snapVars,
                   dag, dagCall, schedPhase, returned, completes, agentVars,
                   logVars, policyVars,
                   patchVars,
                   moreVars>>

SchedComplete(node_id, newly_ready) ==
    /\ schedPhase = "initialized"
    /\ node_id \in sched.running
    /\ sched' = Scheduler_complete(sched, node_id, newly_ready)
    /\ completes' = completes + 1
    /\ schedCall' = [op |-> "complete", result |-> Some(node_id),
                     released |-> newly_ready]
    /\ UNCHANGED <<snapVars,
                   dag, dagCall, schedPhase, returned, started, agentVars,
                   logVars, policyVars,
                   patchVars,
                   moreVars>>

\* The calls that build and query a Dag, with no scheduler made for it.
DagNext ==
    \/ \E id \in NodeIds : AddNode(id)
    \/ \E from \in NodeIds, to \in NodeIds : AddEdge(from, to)
    \/ TopologicalOrder

SchedNextStep ==
    \/ \E id \in NodeIds : AddNode(id)
    \/ \E from \in NodeIds, to \in NodeIds : AddEdge(from, to)
    \/ TopologicalOrder
    \/ \E k \in 1..MaxConcurrent : SchedulerNew(k)
    \/ Initialize
    \/ SchedNext
    \/ \E node_id \in NodeIds : SchedStart(node_id)
    \/ \E node_id \in NodeIds :
          \E newly_ready \in Orders(Scheduler_newly_ready(sched, node_id)) :
             SchedComplete(node_id, newly_ready)

(***************************************************************************)
(* lang.rs, schema.rs, engine.rs: the policy engine.  A String is the      *)
(* sequence of its pieces, so that format! is concatenation and            *)
(* starts_with / ends_with are tests on the pieces: "fs:read" is           *)
(* <<"fs", ":", "read">>.                                                  *)
(***************************************************************************)
Str(s) == <<s>>

starts_with(s, prefix) ==
    /\ Len(prefix) <= Len(s)
    /\ SubSeq(s, 1, Len(prefix)) = prefix

ends_with_star(s) == s # <<>> /\ s[Len(s)] = "*"

\* lang.rs Action.
Allow == <<"Allow">>
Deny(reason) == <<"Deny", reason>>
Log(level) == <<"Log", level>>

\* schema.rs CompiledCondition.
CondTrue == <<"True">>
CondFalse == <<"False">>
CondAnd(conds) == <<"And", conds>>
CondOr(conds) == <<"Or", conds>>
CondNot(inner) == <<"Not", inner>>
HasCapability(cap) == <<"HasCapability", cap>>
ToolEquals(tool) == <<"ToolEquals", tool>>
CondCustom(s) == <<"Custom", s>>

CompiledRule(name, kind, condition, action) ==
    [name |-> name, kind |-> kind, condition |-> condition,
     action |-> action]

PolicyId(name, version) == [name |-> name, version |-> version]

CompiledPolicy(id, rules) == [id |-> id, rules |-> rules]

EvaluationResult_denied(reason) ==
    [allowed |-> FALSE, action |-> Deny(reason), matched_rules |-> <<>>,
     reason |-> reason]

EvalContext_new ==
    [capabilities |-> {}, tool |-> None, memory_key |-> None,
     patch_type |-> None]

EvalContext_has_capability(ctx, cap) ==
    \/ cap \in ctx.capabilities
    \/ \E c \in ctx.capabilities :
          /\ ends_with_star(c)
          /\ starts_with(cap, SubSeq(c, 1, Len(c) - 1))

RECURSIVE PolicyEngine_evaluate_condition(_, _)
PolicyEngine_evaluate_condition(cond, ctx) ==
    CASE cond[1] = "True" -> TRUE
      [] cond[1] = "False" -> FALSE
      [] cond[1] = "And" ->
            \A i \in 1..Len(cond[2]) :
               PolicyEngine_evaluate_condition(cond[2][i], ctx)
      [] cond[1] = "Or" ->
            \E i \in 1..Len(cond[2]) :
               PolicyEngine_evaluate_condition(cond[2][i], ctx)
      [] cond[1] = "Not" -> ~PolicyEngine_evaluate_condition(cond[2], ctx)
      [] cond[1] = "HasCapability" -> EvalContext_has_capability(ctx, cond[2])
      [] cond[1] = "ToolEquals" -> ctx.tool = Some(cond[2])
      [] OTHER -> FALSE

\* Whether the loop of evaluate_tool, evaluate_capability or evaluate_patch
\* (op "tool", "capability", "patch") pushes rule for the subject asked
\* about and the context passed in.
PolicyEngine_rule_matches(op, rule, subject, context) ==
    CASE op = "tool" ->
            /\ rule.kind = "Tool"
            /\ PolicyEngine_evaluate_condition(
                  rule.condition, [context EXCEPT !.tool = Some(subject)])
      [] op = "capability" ->
            /\ rule.kind = "Capability"
            /\ IF rule.condition[1] = "HasCapability"
               THEN rule.condition[2] = subject
               ELSE PolicyEngine_evaluate_condition(rule.condition, context)
      [] op = "patch" ->
            /\ rule.kind = "Patch"
            /\ PolicyEngine_evaluate_condition(
                  rule.condition,
                  [context EXCEPT !.patch_type = Some(subject)])

\* The results vector: the (policy id, rule) pairs pushed, in policy order
\* and, within a policy, rule order.
RECURSIVE PolicyEngine_results_of_rules(_, _, _, _, _)
PolicyEngine_results_of_rules(id, rules, op, subject, context) ==
    IF rules = <<>> THEN <<>>
    ELSE (IF PolicyEngine_rule_matches(op, Head(rules), subject, context)
          THEN << <<id, Head(rules)>> >> ELSE <<>>)
         \o PolicyEngine_results_of_rules(id, Tail(rules), op, subject,
                                          context)

RECURSIVE PolicyEngine_results(_, _, _, _)
PolicyEngine_results(ps, op, subject, context) ==
    IF ps = <<>> THEN <<>>
    ELSE PolicyEngine_results_of_rules(Head(ps).id, Head(ps).rules, op,
                                       subject, context)
         \o PolicyEngine_results(Tail(ps), op, subject, context)

\* resolve_results with the two loops merged: the first matched rule that is
\* an Allow or a Deny decides.
PolicyEngine_resolve_results_first_match(results, subject) ==
    LET decisive == {i \in 1..Len(results) :
                        results[i][2].action[1] \in {"Allow", "Deny"}}
    IN  IF results = <<>>
        THEN EvaluationResult_denied(<<"No policy allows", ": ">> \o subject)
        ELSE IF decisive = {}
        THEN EvaluationResult_denied(Str("No allow rule for: ") \o subject)
        ELSE LET i == CHOOSE k \in decisive : \A j \in decisive : k <= j
                 rule == results[i][2]
             IN  IF rule.action[1] = "Deny"
                 THEN [allowed |-> FALSE, action |-> rule.action,
                       matched_rules |-> <<rule.name>>,
                       reason |-> rule.action[2]]
                 ELSE [allowed |-> TRUE, action |-> rule.action,
                       matched_rules |-> <<rule.name>>,
                       reason |-> Str("Allowed by policy ")
                                  \o results[i][1].name \o Str(" rule ")
                                  \o rule.name]

\* resolve_results that lets a matched rule of any action allow.
PolicyEngine_resolve_results_default_allow(results, subject) ==
    LET denies == {i \in 1..Len(results) : results[i][2].action[1] = "Deny"}
    IN  IF results = <<>>
        THEN EvaluationResult_denied(<<"No policy allows", ": ">> \o subject)
        ELSE IF denies # {}
        THEN LET i == CHOOSE k \in denies : \A j \in denies : k <= j
             IN  [allowed |-> FALSE, action |-> results[i][2].action,
                  matched_rules |-> <<results[i][2].name>>,
                  reason |-> results[i][2].action[2]]
        ELSE [allowed |-> TRUE, action |-> Allow,
              matched_rules |-> <<results[1][2].name>>,
              reason |-> Str("Allowed by policy ") \o results[1][1].name
                         \o Str(" rule ") \o results[1][2].name]

PolicyEngine_resolve_results(results, subject) ==
    LET denies == {i \in 1..Len(results) : results[i][2].action[1] = "Deny"}
        allows == {i \in 1..Len(results) : results[i][2].action = Allow}
    IN  IF results = <<>>
        THEN EvaluationResult_denied(<<"No policy allows", ": ">> \o subject)
        ELSE IF denies # {}
        THEN LET i == CHOOSE k \in denies : \A j \in denies : k <= j
             IN  [allowed |-> FALSE, action |-> results[i][2].action,
                  matched_rules |-> <<results[i][2].name>>,
                  reason |-> results[i][2].action[2]]
        ELSE IF allows # {}
        THEN LET i == CHOOSE k \in allows : \A j \in allows : k <= j
             IN  [allowed |-> TRUE, action |-> results[i][2].action,
                  matched_rules |-> <<results[i][2].name>>,
                  reason |-> Str("Allowed by policy ")
                             \o results[i][1].name \o Str(" rule ")
                             \o results[i][2].name]
        ELSE EvaluationResult_denied(Str("No allow rule for: ") \o subject)

PolicyEngine_evaluate_tool(ps, tool, context) ==
    PolicyEngine_resolve_results(
        PolicyEngine_results(ps, "tool", tool, context),
        Str("tool: ") \o tool)

PolicyEngine_evaluate_capability(ps, cap, context) ==
    PolicyEngine_resolve_results(
        PolicyEngine_results(ps, "capability", cap, context),
        Str("capability: ") \o cap)

PolicyEngine_evaluate_patch(ps, patch_type, context) ==
    PolicyEngine_resolve_results(
        PolicyEngine_results(ps, "patch", patch_type, context),
        Str("patch: ") \o patch_type)

PolicyEngine_add_policy(ps, policy) == Append(ps, policy)

(***************************************************************************)
(* The policy machine: an engine filled by add_policy and asked by the     *)
(* three evaluate calls.                                                   *)
(***************************************************************************)
FsRead == <<"fs", ":", "read">>
FsWrite == <<"fs", ":", "write">>
FsAny == <<"fs", ":", "*">>

\* The (kind, condition) pairs and the action kinds of the model's rules; a
\* Deny rule gives "R" and its own name as the reason.
RuleShapes ==
    {<<"Capability", CondTrue>>, <<"Capability", HasCapability(FsRead)>>,
     <<"Tool", ToolEquals(Str("echo"))>>, <<"Patch", CondTrue>>}
    \X {"Allow", "Deny", "Log"}

RuleNames == <<Str("r1"), Str("r2"), Str("r3"), Str("r4")>>
PolicyNames == <<Str("p1"), Str("p2"), Str("p3"), Str("p4")>>

RuleOf(shape, name) ==
    CompiledRule(name, shape[1][1], shape[1][2],
                 CASE shape[2] = "Allow" -> Allow
                   [] shape[2] = "Deny" -> Deny(Str("R") \o name)
                   [] OTHER -> Log("Info"))

\* The policies of n rules, named by position.
PoliciesOf(n, name) ==
    {CompiledPolicy(PolicyId(name, Str("1.0.0")),
                    [i \in 1..n |-> RuleOf(shapes[i], RuleNames[i])]) :
        shapes \in [1..n -> RuleShapes]}

\* What an engine weighs against MaxRules: its rules, an empty policy
\* counting for one.
RECURSIVE Weight(_)
Weight(ps) ==
    IF ps = <<>> THEN 0
    ELSE (IF Head(ps).rules = <<>> THEN 1 ELSE Len(Head(ps).rules))
         + Weight(Tail(ps))

Contexts ==
    {[EvalContext_new EXCEPT !.capabilities = caps] :
        caps \in {{}, {FsRead}, {FsAny}}}

PolicyInit ==
    /\ manager = <<>>
    /\ managerAdds = <<>>
    /\ managerCall = [op |-> "none"]
    /\ plan = <<>>
    /\ planCall = [op |-> "none"]
    /\ checker = {}
    /\ capCall = [op |-> "none"]
    /\ mem = <<>>
    /\ memCall = [op |-> "none"]
    /\ clock = 0
    /\ clockCall = [op |-> "none"]
    /\ policies = <<>>
    /\ policyCall = [op |-> "new"]
    /\ agent = AgentState_initial
    /\ agentCall = [op |-> "none", domain |-> "", existed |-> FALSE]
    /\ log = [run_id |-> 0, events |-> <<>>, index |-> [k \in {} |-> 0]]
    /\ logCall = [op |-> "none"]
    /\ engines = <<>>
    /\ dag = [nodes |-> {}, edges |-> [n \in {} |-> {}],
              reverse_edges |-> [n \in {} |-> {}]]
    /\ dagCall = [op |-> "none"]
    /\ sched = [ready |-> <<>>, pending |-> [n \in {} |-> <<>>],
                running |-> {}, max_concurrent |-> 0]
    /\ schedPhase = "none"
    /\ schedCall = [op |-> "none"]
    /\ returned = <<>>
    /\ started = {}
    /\ completes = 0
    /\ store = [id \in {} |-> <<>>]
    /\ applied = [id \in {} |-> <<>>]
    /\ patchPhase = "none"
    /\ patchCall = [op |-> "none"]

AddPolicy(policy) ==
    /\ Weight(PolicyEngine_add_policy(policies, policy)) <= MaxRules
    /\ policies' = PolicyEngine_add_policy(policies, policy)
    /\ policyCall' = [op |-> "add_policy"]
    /\ UNCHANGED <<snapVars, agentVars, logVars, planVars, patchVars,
                   moreVars>>

\* What an evaluate call of kind op was asked and what it answered: the
\* actions of the rules it matched, in order, and the result.
Evaluated(op, subject, context, result) ==
    LET results == PolicyEngine_results(policies, op, subject, context)
    IN  [op |-> op, subject |-> subject, context |-> context,
         empty |-> (policies = <<>> /\ context = EvalContext_new),
         matched |-> [i \in 1..Len(results) |-> results[i][2].action],
         result |-> result]

EvaluateTool(tool, context) ==
    /\ policyCall' = Evaluated("tool", tool, context,
                        PolicyEngine_evaluate_tool(policies, tool, context))
    /\ UNCHANGED <<snapVars, policies, agentVars, logVars, planVars, patchVars,
                   moreVars>>

EvaluateCapability(cap, context) ==
    /\ policyCall' = Evaluated("capability", cap, context,
                        PolicyEngine_evaluate_capability(policies, cap,
                                                         context))
    /\ UNCHANGED <<snapVars, policies, agentVars, logVars, planVars, patchVars,
                   moreVars>>

EvaluatePatch(patch_type, context) ==
    /\ policyCall' = Evaluated("patch", patch_type, context,
                        PolicyEngine_evaluate_patch(policies, patch_type,
                                                    context))
    /\ UNCHANGED <<snapVars, policies, agentVars, logVars, planVars, patchVars,
                   moreVars>>

PolicyNext ==
    \/ \E n \in 0..(MaxRules - Weight(policies)) :
          \E policy \in PoliciesOf(n, PolicyNames[Len(policies) + 1]) :
             AddPolicy(policy)
    \/ \E tool \in {Str("echo"), Str("other")}, context \in Contexts :
          EvaluateTool(tool, context)
    \/ \E cap \in {FsRead, FsWrite}, context \in Contexts :
          EvaluateCapability(cap, context)
    \/ \E patch_type \in {Str("Prompt")}, context \in Contexts :
          EvaluatePatch(patch_type, context)

(***************************************************************************)
(* patch.rs, signature.rs, store.rs, gate.rs, apply.rs: the patch engine.  *)
(***************************************************************************)
PatchId_new(run_id, sequence) ==
    [run_id |-> run_id, sequence |-> sequence, checksum |-> ""]

PatchId_to_string(id) == <<id.run_id, ":", id.sequence>>

\* patch.rs PatchTarget.
SystemPrompt == <<"SystemPrompt">>
TargetConfig(key) == <<"Config", key>>
TargetTool(name) == <<"Tool", name>>

Patch_new(id, patch_type, target, reasoning) ==
    [id |-> id, patch_type |-> patch_type, target |-> target,
     data |-> [k \in {} |-> ""], reasoning |-> reasoning, tests |-> <<>>,
     created_at |-> 0, created_by |-> 0]

Patch_with_data(patch, key, value) ==
    [patch EXCEPT !.data = [k \in (DOMAIN @) \cup {key} |->
                               IF k = key THEN value ELSE @[k]]]

Patch_hash(patch) == Hash_from_bytes("patch", patch)

\* patch.rs PatchStatus.
Proposed == <<"Proposed">>
Tested == <<"Tested">>
Audited == <<"Audited">>
Approved == <<"Approved">>
Applied == <<"Applied">>
Rejected(reason) == <<"Rejected", reason>>
RolledBack(reason) == <<"RolledBack", reason>>

\* signature.rs: a signature and a signer id are their bytes; the model
\* keeps the one byte value that fills the array.
Signature_from_bytes(byte) == [bytes |-> byte]
SignerId_from_bytes(byte) == [public_key |-> byte]

\* gate.rs GateResult.
Passed == <<"Passed">>
GateResult_failed(reason) == <<"Failed", reason>>
GateResult_is_passed(r) == r = Passed

\* apply.rs ApplyError, and Ok with what the call returns.
Ok(value) == <<"Ok", value>>
NotFound(id) == <<"NotFound", id>>
NotApproved == <<"NotApproved">>
ApplicationFailed(reason) == <<"ApplicationFailed", reason>>
RollbackFailed(reason) == <<"RollbackFailed", reason>>

\* store.rs StoreError.
AlreadyExists(id) == <<"AlreadyExists", id>>
StoreNotFound(id) == <<"NotFound", id>>

PatchStore_new == [id \in {} |-> <<>>]

PatchStore_add_patch(patches, id, patch, status) ==
    IF id \in DOMAIN patches
    THEN [result |-> AlreadyExists(id), patches |-> patches]
    ELSE [result |-> Ok(<<>>),
          patches |-> [x \in (DOMAIN patches) \cup {id} |->
                          IF x = id THEN [patch |-> patch, status |-> status]
                          ELSE patches[x]]]

PatchStore_get_patch(patches, id) ==
    IF id \in DOMAIN patches THEN Some(patches[id]) ELSE None

PatchStore_update_status(patches, id, status) ==
    IF id \in DOMAIN patches
    THEN [result |-> Ok(<<>>),
          patches |-> [patches EXCEPT ![id].status = status]]
    ELSE [result |-> StoreNotFound(id), patches |-> patches]

\* TestGate::evaluate for a runner under which every test passes, as
\* DeterminismTestRunner and ReplayTestRunner do: a failure is a test that
\* expects Fail.
TestGate_evaluate(patch) ==
    LET failures == {i \in 1..Len(patch.tests) :
                        patch.tests[i].expected = "Fail"}
    IN  IF failures = {} THEN Passed
        ELSE GateResult_failed("should have failed but passed")

contains_injection(text) == text = "ignore previous instructions"

contains_dangerous_content(data) ==
    \E k \in DOMAIN data : data[k] = "use unsafe"

AuditGate_evaluate(patch, policy_engine) ==
    LET policy_result ==
            PolicyEngine_evaluate_patch(<<>>, Str(patch.patch_type),
                                        policy_engine)
    IN  IF ~policy_result.allowed
        THEN GateResult_failed(policy_result.reason)
        ELSE IF patch.patch_type = "Prompt"
                /\ contains_injection(patch.reasoning)
        THEN GateResult_failed(Str("Potential prompt injection detected"))
        ELSE IF contains_dangerous_content(patch.data)
        THEN GateResult_failed(
                Str("Dangerous content detected in patch data"))
        ELSE Passed

ApprovalGate_new(authorized_signers) ==
    [authorized_signers |-> authorized_signers]

ZeroByte == 0

ApprovalGate_evaluate(gate, signature, signer) ==
    IF signer \notin Range(gate.authorized_signers)
    THEN GateResult_failed(Str("Signer not authorized"))
    ELSE IF signature.bytes = ZeroByte
    THEN GateResult_failed(Str("Invalid signature"))
    ELSE Passed

PatchEngine_new(s) == [store |-> s, applied |-> [id \in {} |-> <<>>]]

PatchEngine_submit(e, patch) ==
    LET r == PatchStore_add_patch(e.store, PatchId_to_string(patch.id),
                                  patch, Proposed)
    IN  [result |-> IF r.result[1] = "Ok" THEN r.result
                    ELSE ApplicationFailed(r.result),
         engine |-> [e EXCEPT !.store = r.patches]]

PatchEngine_test_gate(e, patch_id) ==
    LET got == PatchStore_get_patch(e.store, patch_id)
    IN  IF got = None THEN NotFound(patch_id)
        ELSE Ok(TestGate_evaluate(unwrap(got).patch))

PatchEngine_audit_gate(e, patch_id, policy_ctx) ==
    LET got == PatchStore_get_patch(e.store, patch_id)
    IN  IF got = None THEN NotFound(patch_id)
        ELSE Ok(AuditGate_evaluate(unwrap(got).patch, policy_ctx))

PatchEngine_approve(e, patch_id, signature, signer) ==
    LET gate == ApprovalGate_new(<<signer>>)
        result == ApprovalGate_evaluate(gate, signature, signer)
        r == PatchStore_update_status(e.store, patch_id, Approved)
    IN  IF ~GateResult_is_passed(result)
        THEN [result |-> NotApproved, engine |-> e]
        ELSE [result |-> IF r.result[1] = "Ok" THEN r.result
                         ELSE ApplicationFailed(r.result),
              engine |-> [e EXCEPT !.store = r.patches]]

ApplyResult(patch_id, changes_made) ==
    [patch_id |-> patch_id, changes_made |-> changes_made,
     rollback_data |-> [k \in {} |-> ""]]

\* apply_patch as it would be if a target without a branch of its own were
\* accepted as a patch that changes nothing.
PatchEngine_apply_patch_accepts_all(patch, state) ==
    [result |-> Ok(ApplyResult(PatchId_to_string(patch.id), <<>>)),
     state |-> state]

PatchEngine_apply_patch(patch, state) ==
    CASE patch.target = SystemPrompt ->
            [result |-> Ok(ApplyResult(PatchId_to_string(patch.id),
                                       <<"system_prompt">>)),
             state |-> AgentState_set(state, "system_prompt",
                          StateData_Value(StateValue_String(
                             IF "prompt" \in DOMAIN patch.data
                             THEN patch.data["prompt"] ELSE "")))]
      [] patch.target[1] = "Config" ->
            [result |-> Ok(ApplyResult(PatchId_to_string(patch.id),
                                       <<"config." \o patch.target[2]>>)),
             state |-> IF "value" \in DOMAIN patch.data
                       THEN AgentState_set(state,
                               "config." \o patch.target[2],
                               StateData_Value(StateValue_String(
                                  patch.data["value"])))
                       ELSE state]
      [] patch.target[1] = "Policy" ->
            [result |-> Ok(ApplyResult(PatchId_to_string(patch.id),
                                       <<"policy." \o patch.target[2]>>)),
             state |-> AgentState_set(state, "policy." \o patch.target[2],
                          StateData_Value(StateValue_String(
                             IF "policy" \in DOMAIN patch.data
                             THEN patch.data["policy"] ELSE "")))]
      [] OTHER ->
            [result |-> ApplicationFailed("Target type not implemented"),
             state |-> state]

\* apply that does not look at the status.
PatchEngine_apply_no_status_check(e, patch_id, current_state) ==
    LET got == PatchStore_get_patch(e.store, patch_id)
        patch == unwrap(got).patch
        r == PatchEngine_apply_patch(patch, current_state)
        rec == [patch_id |-> patch_id, patch_hash |-> Patch_hash(patch),
                applied_at |-> LogicalTime_new(
                                  0, Cardinality(DOMAIN e.applied)),
                before_hash |-> AgentState_hash(current_state),
                after_hash |-> AgentState_hash(r.state),
                rollback_data |-> [k \in {} |-> ""]]
    IN  IF got = None
        THEN [result |-> NotFound(patch_id), engine |-> e,
              state |-> current_state]
        ELSE IF r.result[1] # "Ok"
        THEN [result |-> r.result, engine |-> e, state |-> current_state]
        ELSE [result |-> r.result,
              engine |->
                 [store |-> PatchStore_update_status(e.store, patch_id,
                                                     Applied).patches,
                  applied |-> [x \in (DOMAIN e.applied) \cup {patch_id} |->
                                  IF x = patch_id THEN rec
                                  ELSE e.applied[x]]],
              state |-> r.state]

PatchEngine_apply(e, patch_id, current_state) ==
    LET got == PatchStore_get_patch(e.store, patch_id)
        patch == unwrap(got).patch
        status == unwrap(got).status
        r == PatchEngine_apply_patch(patch, current_state)
        rec == [patch_id |-> patch_id, patch_hash |-> Patch_hash(patch),
                applied_at |-> LogicalTime_new(
                                  0, Cardinality(DOMAIN e.applied)),
                before_hash |-> AgentState_hash(current_state),
                after_hash |-> AgentState_hash(r.state),
                rollback_data |-> [k \in {} |-> ""]]
    IN  IF got = None
        THEN [result |-> NotFound(patch_id), engine |-> e,
              state |-> current_state]
        ELSE IF status \notin {Approved, Tested}
        THEN [result |-> NotApproved, engine |-> e, state |-> current_state]
        ELSE IF r.result[1] # "Ok"
        THEN [result |-> r.result, engine |-> e, state |-> current_state]
        ELSE [result |-> r.result,
              engine |->
                 [store |-> PatchStore_update_status(e.store, patch_id,
                                                     Applied).patches,
                  applied |-> [x \in (DOMAIN e.applied) \cup {patch_id} |->
                                  IF x = patch_id THEN rec
                                  ELSE e.applied[x]]],
              state |-> r.state]

RollbackResult(patch_id, restored_to) ==
    [patch_id |-> patch_id, restored_to |-> restored_to]

PatchEngine_rollback(e, patch_id, current_state) ==
    IF patch_id \notin DOMAIN e.applied
    THEN [result |-> NotFound(patch_id), engine |-> e,
          state |-> current_state]
    ELSE LET rec == e.applied[patch_id]
             s1 == AgentState_set(current_state, "_rollback",
                      StateData_Value(StateValue_Hash(rec.before_hash)))
             r == PatchStore_update_status(
                     e.store, patch_id, RolledBack("Manual rollback"))
         IN  IF r.result[1] # "Ok"
             THEN [result |-> RollbackFailed(r.result), engine |-> e,
                   state |-> s1]
             ELSE [result |-> Ok(RollbackResult(patch_id, rec.before_hash)),
                   engine |-> [e EXCEPT !.store = r.patches],
                   state |-> s1]

(***************************************************************************)
(* The patch machine: a PatchStore filled by add_patch, handed to          *)
(* PatchEngine::new, and the engine's calls on it and on an agent state.   *)
(***************************************************************************)
PatchSet ==
    {Patch_with_data(Patch_new(PatchId_new(1, 0), "Prompt", SystemPrompt,
                               "Update prompt"),
                     "prompt", "You are a helpful assistant."),
     Patch_with_data(Patch_new(PatchId_new(1, 1), "Config",
                               TargetConfig("test"), "Test"),
                     "value", "42"),
     Patch_new(PatchId_new(1, 2), "Tools", TargetTool("echo"), "Add tool")}

PatchIds == {PatchId_to_string(p.id) : p \in PatchSet}

Statuses ==
    {Proposed, Tested, Audited, Approved, Applied, Rejected("Rejected"),
     RolledBack("Manual rollback")}

Signatures == {Signature_from_bytes(b) : b \in {ZeroByte, 1}}
Signers == {SignerId_from_bytes(b) : b \in {2, 3}}

\* The signers a deployment authorises to approve patches.
AuthorizedSigners == {SignerId_from_bytes(2)}

StatusOf(s, id) == IF id \in DOMAIN s THEN Some(s[id].status) ELSE None

PatchInit ==
    /\ manager = <<>>
    /\ managerAdds = <<>>
    /\ managerCall = [op |-> "none"]
    /\ plan = <<>>
    /\ planCall = [op |-> "none"]
    /\ checker = {}
    /\ capCall = [op |-> "none"]
    /\ mem = <<>>
    /\ memCall = [op |-> "none"]
    /\ clock = 0
    /\ clockCall = [op |-> "none"]
    /\ store = PatchStore_new
    /\ applied = [id \in {} |-> <<>>]
    /\ patchPhase = "store"
    /\ patchCall = [op |-> "new"]
    /\ agent = AgentState_initial
    /\ agentCall = [op |-> "none", domain |-> "", existed |-> FALSE]
    /\ log = [run_id |-> 0, events |-> <<>>, index |-> [k \in {} |-> 0]]
    /\ logCall = [op |-> "none"]
    /\ engines = <<>>
    /\ dag = [nodes |-> {}, edges |-> [n \in {} |-> {}],
              reverse_edges |-> [n \in {} |-> {}]]
    /\ dagCall = [op |-> "none"]
    /\ sched = [ready |-> <<>>, pending |-> [n \in {} |-> <<>>],
                running |-> {}, max_concurrent |-> 0]
    /\ schedPhase = "none"
    /\ schedCall = [op |-> "none"]
    /\ returned = <<>>
    /\ started = {}
    /\ completes = 0
    /\ policies = <<>>
    /\ policyCall = [op |-> "none"]

\* PatchStore::add_patch on the store before the engine takes it.
StoreAddPatch(patch, status) ==
    /\ patchPhase = "store"
    /\ Cardinality(DOMAIN store) < MaxStored
    /\ LET r == PatchStore_add_patch(store, PatchId_to_string(patch.id),
                                     patch, status)
       IN  /\ store' = r.patches
           /\ patchCall' = [op |-> "add_patch", result |-> r.result]
    /\ UNCHANGED <<snapVars,
                   applied, patchPhase, agentVars, logVars, planVars, policyVars,
                   moreVars>>

EngineNew ==
    /\ patchPhase = "store"
    /\ patchPhase' = "engine"
    /\ store' = PatchEngine_new(store).store
    /\ applied' = PatchEngine_new(store).applied
    /\ patchCall' = [op |-> "engine_new"]
    /\ UNCHANGED <<snapVars, agentVars, logVars, planVars, policyVars,
                   moreVars>>

\* What a call on patch id left behind: its result, the status before it,
\* whether the agent state, the status or the applied records moved, and
\* for approve the signature and the signer it was given.
Called(op, id, result, e, state) ==
    [op |-> op, id |-> id, result |-> result,
     before |-> StatusOf(store, id),
     state_changed |-> state # agent,
     status_changed |-> StatusOf(e.store, id) # StatusOf(store, id),
     applied_changed |-> e.applied # applied,
     signed |-> <<>>]

Submit(patch) ==
    /\ patchPhase = "engine"
    /\ LET e == [store |-> store, applied |-> applied]
           r == PatchEngine_submit(e, patch)
       IN  /\ store' = r.engine.store
           /\ patchCall' = Called("submit", PatchId_to_string(patch.id),
                                  r.result, r.engine, agent)
    /\ UNCHANGED <<snapVars,
                   applied, patchPhase, agentVars, logVars, planVars, policyVars,
                   moreVars>>

TestGate(patch_id) ==
    /\ patchPhase = "engine"
    /\ LET e == [store |-> store, applied |-> applied]
       IN  patchCall' = Called("test_gate", patch_id,
                               PatchEngine_test_gate(e, patch_id), e, agent)
    /\ UNCHANGED <<snapVars,
                   store, applied, patchPhase, agentVars, logVars, planVars, policyVars,
                   moreVars>>

AuditGate(patch_id, policy_ctx) ==
    /\ patchPhase = "engine"
    /\ LET e == [store |-> store, applied |-> applied]
       IN  patchCall' = Called("audit_gate", patch_id,
                               PatchEngine_audit_gate(e, patch_id,
                                                      policy_ctx),
                               e, agent)
    /\ UNCHANGED <<snapVars,
                   store, applied, patchPhase, agentVars, logVars, planVars, policyVars,
                   moreVars>>

Approve(patch_id, signature, signer) ==
    /\ patchPhase = "engine"
    /\ LET e == [store |-> store, applied |-> applied]
           r == PatchEngine_approve(e, patch_id, signature, signer)
       IN  /\ store' = r.engine.store
           /\ patchCall' = [Called("approve", patch_id, r.result, r.engine,
                                   agent)
                            EXCEPT !.signed = <<signature, signer>>]
    /\ UNCHANGED <<snapVars,
                   applied, patchPhase, agentVars, logVars, planVars, policyVars,
                   moreVars>>

Apply(patch_id) ==
    /\ patchPhase = "engine"
    /\ agent.version < MaxVersion
    /\ LET e == [store |-> store, applied |-> applied]
           r == PatchEngine_apply(e, patch_id, agent)
       IN  /\ store' = r.engine.store
           /\ applied' = r.engine.applied
           /\ agent' = r.state
           /\ patchCall' = Called("apply", patch_id, r.result, r.engine,
                                  r.state)
    /\ UNCHANGED <<snapVars,
                   patchPhase, agentCall, logVars, planVars, policyVars,
                   moreVars>>

Rollback(patch_id) ==
    /\ patchPhase = "engine"
    /\ agent.version < MaxVersion
    /\ LET e == [store |-> store, applied |-> applied]
           r == PatchEngine_rollback(e, patch_id, agent)
       IN  /\ store' = r.engine.store
           /\ applied' = r.engine.applied
           /\ agent' = r.state
           /\ patchCall' = Called("rollback", patch_id, r.result, r.engine,
                                  r.state)
    /\ UNCHANGED <<snapVars,
                   patchPhase, agentCall, logVars, planVars, policyVars,
                   moreVars>>

PatchNext ==
    \/ \E patch \in PatchSet, status \in Statuses :
          StoreAddPatch(patch, status)
    \/ EngineNew
    \/ \E patch \in PatchSet : Submit(patch)
    \/ \E patch_id \in PatchIds : TestGate(patch_id)
    \/ \E patch_id \in PatchIds, policy_ctx \in {EvalContext_new} :
          AuditGate(patch_id, policy_ctx)
    \/ \E patch_id \in PatchIds, signature \in Signatures,
          signer \in Signers :
          Approve(patch_id, signature, signer)
    \/ \E patch_id \in PatchIds : Apply(patch_id)
    \/ \E patch_id \in PatchIds : Rollback(patch_id)

(***************************************************************************)
(* Plans and their compilation (oracle_omen_plan: dsl.rs, validate.rs,     *)
(* compiler.rs).  A Plan is its Vec of steps; a PlanStep is kept by its    *)
(* id, its dependencies (a Vec of step ids) and resources.timeout_ms, the  *)
(* fields validation and compilation read.  A compiled Dag is the graph    *)
(* of the DAG model together with node_resources, the timeout_ms that      *)
(* compile copies from each step into its DagNode.                         *)
(***************************************************************************)
MaxSteps == 2
DefaultTimeoutMs == 30000

Plan_new == <<>>

PlanStep_new(id) ==
    [id |-> id, dependencies |-> <<>>, timeout_ms |-> DefaultTimeoutMs]

PlanStep_depends_on(step, dep) ==
    [step EXCEPT !.dependencies = Append(@, dep)]

PlanStep_with_timeout(step, timeout_ms) ==
    [step EXCEPT !.timeout_ms = timeout_ms]

Plan_add_step(p, step) == Append(p, step)

ValidationOk == <<"Ok">>
DuplicateStep(id) == <<"DuplicateStep", id>>
DependencyNotFound(step, dependency) ==
    <<"DependencyNotFound", step, dependency>>
InvalidResource(step, resource, reason) ==
    <<"InvalidResource", step, resource, reason>>

\* The (step, dependency) pairs of a plan in the order the nested for loops
\* visit them.
RECURSIVE Plan_dependency_pairs(_)
Plan_dependency_pairs(p) ==
    IF p = <<>> THEN <<>>
    ELSE [i \in 1..Len(Head(p).dependencies) |->
              <<Head(p).id, Head(p).dependencies[i]>>]
         \o Plan_dependency_pairs(Tail(p))

\* PlanValidator::validate: the first duplicate id, else the first missing
\* dependency, else the first step whose timeout_ms is zero.
PlanValidator_validate(p) ==
    LET dup == {i \in 1..Len(p) : \E j \in 1..(i - 1) : p[j].id = p[i].id}
        seen == {p[i].id : i \in 1..Len(p)}
        pairs == Plan_dependency_pairs(p)
        missing == {i \in 1..Len(pairs) : pairs[i][2] \notin seen}
        zero == {i \in 1..Len(p) : p[i].timeout_ms = 0}
        first(S) == CHOOSE i \in S : \A j \in S : i <= j
    IN  IF dup # {} THEN DuplicateStep(p[first(dup)].id)
        ELSE IF missing # {}
        THEN DependencyNotFound(pairs[first(missing)][1],
                                pairs[first(missing)][2])
        ELSE IF zero # {}
        THEN InvalidResource(p[first(zero)].id, "timeout_ms",
                             "must be positive")
        ELSE ValidationOk

\* Dag::validate: topological_order must succeed, then every edge target
\* must be a node.
Dag_validate(d) ==
    LET order == Dag_topological_order(d)
        bad == {n \in DOMAIN d.edges : d.edges[n] \ d.nodes # {}}
    IN  IF ~order.ok THEN order.err
        ELSE IF bad # {}
        THEN LET n == Head(SortedNodes(bad))
             IN  <<"DependencyNotFound", n,
                   Head(SortedNodes(d.edges[n] \ d.nodes))>>
        ELSE DagOk

CompileError_Dag(e) == <<"Dag", e>>

\* First pass of compile: one add_node per step, stopped by the first error.
RECURSIVE PlanCompiler_add_nodes(_, _, _)
PlanCompiler_add_nodes(p, d, node_resources) ==
    IF p = <<>>
    THEN [result |-> DagOk, dag |-> d, node_resources |-> node_resources]
    ELSE LET r == Dag_add_node(d, Head(p).id)
         IN  IF r.result # DagOk
             THEN [result |-> r.result, dag |-> d,
                   node_resources |-> node_resources]
             ELSE PlanCompiler_add_nodes(
                      Tail(p), r.dag,
                      BTreeMap_insert(node_resources, Head(p).id,
                                      Head(p).timeout_ms))

\* Second pass of compile: add_edge(dep, step.id) per dependency.
RECURSIVE PlanCompiler_add_edges(_, _)
PlanCompiler_add_edges(pairs, d) ==
    IF pairs = <<>> THEN [result |-> DagOk, dag |-> d]
    ELSE LET r == Dag_add_edge(d, Head(pairs)[2], Head(pairs)[1])
         IN  IF r.result # DagOk THEN [result |-> r.result, dag |-> d]
             ELSE PlanCompiler_add_edges(Tail(pairs), r.dag)

\* PlanCompiler::compile.
PlanCompiler_compile(p) ==
    LET nodes == PlanCompiler_add_nodes(p, Dag_new, [n \in {} |-> 0])
        edges == PlanCompiler_add_edges(Plan_dependency_pairs(p), nodes.dag)
        valid == Dag_validate(edges.dag)
        failed(e) == [ok |-> FALSE, err |-> CompileError_Dag(e),
                      dag |-> Dag_new, node_resources |-> [n \in {} |-> 0]]
    IN  IF nodes.result # DagOk THEN failed(nodes.result)
        ELSE IF edges.result # DagOk THEN failed(edges.result)
        ELSE IF valid # DagOk THEN failed(valid)
        ELSE [ok |-> TRUE, err |-> DagOk, dag |-> edges.dag,
              node_resources |-> nodes.node_resources]

(***************************************************************************)
(* The plan machine: a plan is built step by step and may be validated or  *)
(* compiled at any point.                                                  *)
(***************************************************************************)
StepIds == {"a", "b"}
DependencyIds == {"a", "b", "c"}
Timeouts == {0, DefaultTimeoutMs}

PlanInit ==
    /\ manager = <<>>
    /\ managerAdds = <<>>
    /\ managerCall = [op |-> "none"]
    /\ plan = Plan_new
    /\ planCall = [op |-> "new"]
    /\ checker = {}
    /\ capCall = [op |-> "none"]
    /\ mem = <<>>
    /\ memCall = [op |-> "none"]
    /\ clock = 0
    /\ clockCall = [op |-> "none"]
    /\ store = [id \in {} |-> <<>>]
    /\ applied = [id \in {} |-> <<>>]
    /\ patchPhase = "none"
    /\ patchCall = [op |-> "none"]
    /\ agent = AgentState_initial
    /\ agentCall = [op |-> "none", domain |-> "", existed |-> FALSE]
    /\ log = [run_id |-> 0, events |-> <<>>, index |-> [k \in {} |-> 0]]
    /\ logCall = [op |-> "none"]
    /\ engines = <<>>
    /\ dag = [nodes |-> {}, edges |-> [n \in {} |-> {}],
              reverse_edges |-> [n \in {} |-> {}]]
    /\ dagCall = [op |-> "none"]
    /\ sched = [ready |-> <<>>, pending |-> [n \in {} |-> <<>>],
                running |-> {}, max_concurrent |-> 0]
    /\ schedPhase = "none"
    /\ schedCall = [op |-> "none"]
    /\ returned = <<>>
    /\ started = {}
    /\ completes = 0
    /\ policies = <<>>
    /\ policyCall = [op |-> "none"]

\* plan.add_step(PlanStep::new(id, ..) [.depends_on(dep)] with timeout_ms).
AddStep(id, deps, timeout_ms) ==
    /\ Len(plan) < MaxSteps
    /\ plan' = Plan_add_step(
                   plan,
                   PlanStep_with_timeout(
                       IF deps = <<>> THEN PlanStep_new(id)
                       ELSE PlanStep_depends_on(PlanStep_new(id), deps[1]),
                       timeout_ms))
    /\ planCall' = [op |-> "add_step"]
    /\ UNCHANGED <<snapVars, coreVars, capVars, memVars, clockVars>>

\* PlanValidator::validate(&plan).
Validate ==
    /\ planCall' = [op |-> "validate",
                    result |-> PlanValidator_validate(plan)]
    /\ UNCHANGED <<snapVars, plan, coreVars, capVars, memVars, clockVars>>

\* PlanCompiler::compile(&plan).
Compile ==
    /\ planCall' = [op |-> "compile", result |-> PlanCompiler_compile(plan)]
    /\ UNCHANGED <<snapVars, plan, coreVars, capVars, memVars, clockVars>>

PlanNext ==
    \/ \E id \in StepIds, timeout_ms \in Timeouts,
          deps \in {<<>>} \cup {<<dep>> : dep \in DependencyIds} :
            AddStep(id, deps, timeout_ms)
    \/ Validate
    \/ Compile

(***************************************************************************)
(* Capabilities (oracle_omen_core capability.rs) and the runtime's         *)
(* CapabilityChecker (oracle_omen_runtime capabilities.rs).  A capability  *)
(* name is a string in the representation of the policy model, a sequence  *)
(* of atoms in which ":" stands alone; a CapabilitySet is the set of its   *)
(* capabilities.                                                           *)
(***************************************************************************)
MaxRequired == 2

\* str::split(':'): the parts between the separators; the empty string has
\* the single part "".
RECURSIVE str_split(_, _)
str_split(s, part) ==
    IF s = <<>> THEN <<part>>
    ELSE IF Head(s) = ":" THEN <<part>> \o str_split(Tail(s), <<>>)
    ELSE str_split(Tail(s), Append(part, Head(s)))

Capability_new(name) == name

\* Capability::matches(&self, pattern): walks the parts of the pattern; a
\* part "*" of the pattern matches anything, any other part must equal the
\* part of self at the same index.
Capability_matches(self, pattern) ==
    LET parts == str_split(pattern, <<>>)
        self_parts == str_split(self, <<>>)
    IN  \A i \in 1..Len(parts) :
            \/ parts[i] = <<"*">>
            \/ (i <= Len(self_parts) /\ self_parts[i] = parts[i])

CapabilitySet_empty == {}
CapabilitySet_new(capabilities) == capabilities
CapabilitySet_has(set, capability) == capability \in set
CapabilitySet_has_pattern(set, pattern) ==
    \E c \in set : Capability_matches(c, pattern)

Granted == <<"Granted">>
Denied(capability, reason) == <<"Denied", capability, reason>>
CheckResult_is_granted(r) == r = Granted

CapabilityChecker_new(granted) == granted

CapabilityChecker_check(granted, capability) ==
    IF CapabilitySet_has(granted, capability) THEN Granted
    ELSE Denied(capability, "Capability not granted")

\* check_all as it would be if it also denied a checker that holds a
\* capability the call does not require.
CapabilityChecker_check_all_exact(granted, required) ==
    IF /\ \A i \in 1..Len(required) : CapabilitySet_has(granted, required[i])
       /\ \A c \in granted : \E j \in 1..Len(required) : required[j] = c
    THEN Granted
    ELSE Denied(<<>>, "Required capability not granted")

\* check_all: the first required capability that is not granted is denied.
CapabilityChecker_check_all(granted, required) ==
    LET missing == {i \in 1..Len(required) :
                       ~CapabilitySet_has(granted, required[i])}
    IN  IF missing = {} THEN Granted
        ELSE Denied(required[CHOOSE i \in missing : \A j \in missing : i <= j],
                    "Required capability not granted")

(***************************************************************************)
(* The capability machine: a checker is made from a granted set, then      *)
(* asked about capabilities, lists of capabilities and patterns.           *)
(***************************************************************************)
CapFsReadAny == <<"fs", ":", "read", ":", "*">>
CapFsReadTmp == <<"fs", ":", "read", ":", "/tmp">>
CapFsWriteAny == <<"fs", ":", "write", ":", "*">>
CapHttpGet == <<"network", ":", "http", ":", "get">>
Capabilities == {CapFsReadAny, CapFsReadTmp, CapFsWriteAny, CapHttpGet}
Patterns == Capabilities \cup {<<"*">>, <<"fs", ":", "read">>, <<>>}

RECURSIVE SeqsUpTo(_, _)
SeqsUpTo(S, n) ==
    IF n = 0 THEN {<<>>}
    ELSE SeqsUpTo(S, n - 1)
         \cup {Append(q, x) : q \in SeqsUpTo(S, n - 1), x \in S}

CapInit ==
    /\ manager = <<>>
    /\ managerAdds = <<>>
    /\ managerCall = [op |-> "none"]
    /\ checker = CapabilityChecker_new(CapabilitySet_empty)
    /\ capCall = [op |-> "new"]
    /\ plan = <<>>
    /\ planCall = [op |-> "none"]
    /\ mem = <<>>
    /\ memCall = [op |-> "none"]
    /\ clock = 0
    /\ clockCall = [op |-> "none"]
    /\ store = [id \in {} |-> <<>>]
    /\ applied = [id \in {} |-> <<>>]
    /\ patchPhase = "none"
    /\ patchCall = [op |-> "none"]
    /\ agent = AgentState_initial
    /\ agentCall = [op |-> "none", domain |-> "", existed |-> FALSE]
    /\ log = [run_id |-> 0, events |-> <<>>, index |-> [k \in {} |-> 0]]
    /\ logCall = [op |-> "none"]
    /\ engines = <<>>
    /\ dag = [nodes |-> {}, edges |-> [n \in {} |-> {}],
              reverse_edges |-> [n \in {} |-> {}]]
    /\ dagCall = [op |-> "none"]
    /\ sched = [ready |-> <<>>, pending |-> [n \in {} |-> <<>>],
                running |-> {}, max_concurrent |-> 0]
    /\ schedPhase = "none"
    /\ schedCall = [op |-> "none"]
    /\ returned = <<>>
    /\ started = {}
    /\ completes = 0
    /\ policies = <<>>
    /\ policyCall = [op |-> "none"]

\* CapabilityChecker::new(CapabilitySet::new(granted)).
CheckerNew(granted) ==
    /\ checker' = CapabilityChecker_new(CapabilitySet_new(granted))
    /\ capCall' = [op |-> "new"]
    /\ UNCHANGED <<snapVars, coreVars, dslVars, memVars, clockVars>>

\* checker.check(&capability).
Check(capability) ==
    /\ capCall' = [op |-> "check", capability |-> capability,
                   result |-> CapabilityChecker_check(checker, capability)]
    /\ UNCHANGED <<snapVars, checker, coreVars, dslVars, memVars, clockVars>>

\* checker.check_all(&required).
CheckAll(required) ==
    /\ capCall' = [op |-> "check_all", required |-> required,
                   result |-> CapabilityChecker_check_all(checker, required)]
    /\ UNCHANGED <<snapVars, checker, coreVars, dslVars, memVars, clockVars>>

\* checker.granted().has_pattern(pattern).
HasPattern(pattern) ==
    /\ capCall' = [op |-> "has_pattern", pattern |-> pattern,
                   result |-> CapabilitySet_has_pattern(checker, pattern)]
    /\ UNCHANGED <<snapVars, checker, coreVars, dslVars, memVars, clockVars>>

CapNext ==
    \/ \E granted \in SUBSET Capabilities : CheckerNew(granted)
    \/ \E capability \in Capabilities : Check(capability)
    \/ \E required \in SeqsUpTo(Capabilities, MaxRequired) : CheckAll(required)
    \/ \E pattern \in Patterns : HasPattern(pattern)

(***************************************************************************)
(* The memory store (oracle_omen_memory: document.rs, store.rs).  A        *)
(* Document is a last-writer-wins register keyed by its causal event; a    *)
(* MemoryStore holds one document per key, the provenance of every write   *)
(* and a hash over its documents.                                          *)
(***************************************************************************)
MaxWrites == 3

Document_rehash(doc) ==
    [doc EXCEPT !.hash = Hash_from_bytes(
                    "document",
                    <<doc.key, doc.value, doc.version, doc.causal_event>>)]

Document_new(key, value, causal_event) ==
    Document_rehash([key |-> key, value |-> value,
                     version |-> [k \in {} |-> 0],
                     causal_event |-> causal_event, hash |-> Hash_zero])

\* Document::merge(&mut self, other): the result and self afterwards.
Document_merge(self, other) ==
    IF self.key # other.key
    THEN [result |-> "KeyMismatch", doc |-> self]
    ELSE IF other.causal_event > self.causal_event
    THEN [result |-> "Merged",
          doc |-> Document_rehash(
                      [self EXCEPT !.value = other.value,
                                   !.causal_event = other.causal_event])]
    ELSE [result |-> "Unchanged", doc |-> self]

combine_hashes(hashes) == Hash_from_bytes("combined", hashes)

MemoryStore_rehash(s) ==
    LET keys == SelectSeq(KeyOrder, LAMBDA k : k \in DOMAIN s.documents)
    IN  [s EXCEPT !.store_hash =
            combine_hashes([i \in 1..Len(keys) |->
                               s.documents[keys[i]].hash])]

MemoryStore_new ==
    [documents |-> [k \in {} |-> <<>>],
     provenance |-> [e \in {} |-> <<>>],
     store_hash |-> Hash_zero]

WriteResult(key, result, store_hash) ==
    [key |-> key, result |-> result, store_hash |-> store_hash]

\* MemoryStore::write: provenance first, then merge into the stored document
\* or insert, then rehash.
MemoryStore_write(s, doc) ==
    LET key == doc.key
        causal_event == doc.causal_event
        provenance ==
            BTreeMap_insert(s.provenance, causal_event,
                Append(IF causal_event \in DOMAIN s.provenance
                       THEN s.provenance[causal_event] ELSE <<>>, key))
        merged == Document_merge(s.documents[key], doc)
        result == IF key \in DOMAIN s.documents THEN merged.result
                  ELSE "Merged"
        documents ==
            BTreeMap_insert(s.documents, key,
                            IF key \in DOMAIN s.documents THEN merged.doc
                            ELSE doc)
        after == MemoryStore_rehash(
                     [s EXCEPT !.provenance = provenance,
                               !.documents = documents])
    IN  [result |-> WriteResult(key, result, after.store_hash),
         store |-> after]

MemoryStore_read(s, key) ==
    IF key \in DOMAIN s.documents THEN Some(s.documents[key]) ELSE None

\* MemoryStore::delete: a stored document is removed, the deletion is
\* recorded in provenance as "!" + key, and the store is rehashed.
MemoryStore_delete(s, key, causal_event) ==
    IF key \in DOMAIN s.documents
    THEN [result |-> "Deleted",
          store |-> MemoryStore_rehash(
                       [s EXCEPT
                          !.documents =
                             [k \in (DOMAIN s.documents) \ {key} |->
                                 s.documents[k]],
                          !.provenance =
                             BTreeMap_insert(s.provenance, causal_event,
                                Append(IF causal_event
                                             \in DOMAIN s.provenance
                                       THEN s.provenance[causal_event]
                                       ELSE <<>>,
                                       "!" \o key))])]
    ELSE [result |-> "NotFound", store |-> s]

(***************************************************************************)
(* The memory machine: two stores (replicas) receive writes independently; *)
(* written is the set of documents a replica has been handed so far.       *)
(***************************************************************************)
MemDocs == {Document_new("key", v, e) : v \in {"x", "y"}, e \in 1..2}

\* The documents a stored document is merged with: itself (None), a
\* document of another key, and the documents that are written.
MergeArgs ==
    {None, Some(Document_new("test", "x", 1))}
    \cup {Some(d) : d \in MemDocs}

Replicas == 1..2

RECURSIVE SumLen(_)
SumLen(f) ==
    IF DOMAIN f = {} THEN 0
    ELSE LET e == CHOOSE x \in DOMAIN f : TRUE
         IN  Len(f[e]) + SumLen([x \in (DOMAIN f) \ {e} |-> f[x]])

MemInit ==
    /\ manager = <<>>
    /\ managerAdds = <<>>
    /\ managerCall = [op |-> "none"]
    /\ mem = [r \in Replicas |-> [store |-> MemoryStore_new, written |-> {}]]
    /\ memCall = [op |-> "new"]
    /\ plan = <<>>
    /\ planCall = [op |-> "none"]
    /\ checker = {}
    /\ capCall = [op |-> "none"]
    /\ clock = 0
    /\ clockCall = [op |-> "none"]
    /\ store = [id \in {} |-> <<>>]
    /\ applied = [id \in {} |-> <<>>]
    /\ patchPhase = "none"
    /\ patchCall = [op |-> "none"]
    /\ agent = AgentState_initial
    /\ agentCall = [op |-> "none", domain |-> "", existed |-> FALSE]
    /\ log = [run_id |-> 0, events |-> <<>>, index |-> [k \in {} |-> 0]]
    /\ logCall = [op |-> "none"]
    /\ engines = <<>>
    /\ dag = [nodes |-> {}, edges |-> [n \in {} |-> {}],
              reverse_edges |-> [n \in {} |-> {}]]
    /\ dagCall = [op |-> "none"]
    /\ sched = [ready |-> <<>>, pending |-> [n \in {} |-> <<>>],
                running |-> {}, max_concurrent |-> 0]
    /\ schedPhase = "none"
    /\ schedCall = [op |-> "none"]
    /\ returned = <<>>
    /\ started = {}
    /\ completes = 0
    /\ policies = <<>>
    /\ policyCall = [op |-> "none"]

\* mem[r].write(doc).
Write(r, doc) ==
    /\ SumLen(mem[r].store.provenance) < MaxWrites
    /\ LET w == MemoryStore_write(mem[r].store, doc)
       IN  /\ mem' = [mem EXCEPT ![r] =
                         [store |-> w.store, written |-> @.written \cup {doc}]]
           /\ memCall' = [op |-> "write", result |-> w.result]
    /\ UNCHANGED <<snapVars, coreVars, dslVars, capVars, clockVars>>

\* A copy of the document mem[r] stores under key, merged with other.
Merge(r, key, other) ==
    /\ MemoryStore_read(mem[r].store, key) # None
    /\ LET doc == unwrap(MemoryStore_read(mem[r].store, key))
           m == Document_merge(doc, IF other = None THEN doc
                                    ELSE unwrap(other))
       IN  memCall' = [op |-> "merge", self |-> (other = None),
                       result |-> m.result, changed |-> (m.doc # doc)]
    /\ UNCHANGED <<snapVars, mem, coreVars, dslVars, capVars, clockVars>>

\* mem[r].delete(key, causal_event).
Delete(r, key, causal_event) ==
    /\ SumLen(mem[r].store.provenance) < MaxWrites
    /\ LET d == MemoryStore_delete(mem[r].store, key, causal_event)
       IN  /\ mem' = [mem EXCEPT ![r].store = d.store]
           /\ memCall' = [op |-> "delete", result |-> d.result]
    /\ UNCHANGED <<snapVars, coreVars, dslVars, capVars, clockVars>>

\* Stores that are written to and deleted from.
MemDeleteNext ==
    \/ \E r \in Replicas, doc \in MemDocs : Write(r, doc)
    \/ \E r \in Replicas, causal_event \in 1..2 :
          Delete(r, "key", causal_event)

MemNext ==
    \/ \E r \in Replicas, doc \in MemDocs : Write(r, doc)
    \/ \E r \in Replicas, other \in MergeArgs : Merge(r, "key", other)

(***************************************************************************)
(* The standard time source (oracle_omen_core time.rs): an AtomicU64       *)
(* sequence shared by the threads that call now() and tick().  Each call   *)
(* is split at its one atomic access: the access itself, and the return of *)
(* the LogicalTime built from the value it read.  clockCall holds, per     *)
(* thread, the call in progress and the value it read, the times its       *)
(* now() calls returned, and the times the tick() calls returned.          *)
(***************************************************************************)
MaxTicks == 3
MaxNows == 2
ClockRunId == 42

Threads == 1..2

\* AtomicU64::load(SeqCst).
AtomicU64_load(value) == value

\* fetch_add as it would be if it returned the value after the addition.
AtomicU64_add_fetch(value, n) == [previous |-> value + n, value |-> value + n]

\* AtomicU64::fetch_add(n, SeqCst): one indivisible step that stores
\* value + n and returns the previous value.
AtomicU64_fetch_add(value, n) == [previous |-> value, value |-> value + n]

StandardTimeSource_new(run_id) == [run_id |-> run_id, sequence |-> 0]

ClockInit ==
    /\ manager = <<>>
    /\ managerAdds = <<>>
    /\ managerCall = [op |-> "none"]
    /\ clock = StandardTimeSource_new(ClockRunId).sequence
    /\ clockCall = [op |-> "new",
                    threads |-> [t \in Threads |-> [pc |-> "idle", seq |-> 0]],
                    nows |-> [t \in Threads |-> <<>>],
                    ticks |-> <<>>]
    /\ plan = <<>>
    /\ planCall = [op |-> "none"]
    /\ checker = {}
    /\ capCall = [op |-> "none"]
    /\ mem = <<>>
    /\ memCall = [op |-> "none"]
    /\ store = [id \in {} |-> <<>>]
    /\ applied = [id \in {} |-> <<>>]
    /\ patchPhase = "none"
    /\ patchCall = [op |-> "none"]
    /\ agent = AgentState_initial
    /\ agentCall = [op |-> "none", domain |-> "", existed |-> FALSE]
    /\ log = [run_id |-> 0, events |-> <<>>, index |-> [k \in {} |-> 0]]
    /\ logCall = [op |-> "none"]
    /\ engines = <<>>
    /\ dag = [nodes |-> {}, edges |-> [n \in {} |-> {}],
              reverse_edges |-> [n \in {} |-> {}]]
    /\ dagCall = [op |-> "none"]
    /\ sched = [ready |-> <<>>, pending |-> [n \in {} |-> <<>>],
                running |-> {}, max_concurrent |-> 0]
    /\ schedPhase = "none"
    /\ schedCall = [op |-> "none"]
    /\ returned = <<>>
    /\ started = {}
    /\ completes = 0
    /\ policies = <<>>
    /\ policyCall = [op |-> "none"]

\* Thread t enters tick(): the fetch_add on the sequence.
TickFetch(t) ==
    /\ clockCall.threads[t].pc = "idle"
    /\ Len(clockCall.ticks)
         + Cardinality({u \in Threads : clockCall.threads[u].pc = "tick"})
         < MaxTicks
    /\ LET r == AtomicU64_fetch_add(clock, 1)
       IN  /\ clock' = r.value
           /\ clockCall' = [clockCall EXCEPT
                              !.op = "tick",
                              !.threads[t] = [pc |-> "tick",
                                              seq |-> r.previous]]
    /\ UNCHANGED <<snapVars, coreVars, dslVars, capVars, memVars>>

\* Thread t leaves tick() with LogicalTime::new(run_id, seq).
TickReturn(t) ==
    /\ clockCall.threads[t].pc = "tick"
    /\ clockCall' = [clockCall EXCEPT
                       !.op = "tick",
                       !.threads[t] = [pc |-> "idle", seq |-> 0],
                       !.ticks = Append(@, LogicalTime_new(
                                     ClockRunId, clockCall.threads[t].seq))]
    /\ UNCHANGED <<snapVars, clock, coreVars, dslVars, capVars, memVars>>

\* Thread t enters now(): the load of the sequence.
NowLoad(t) ==
    /\ clockCall.threads[t].pc = "idle"
    /\ Len(clockCall.nows[t]) < MaxNows
    /\ clockCall' = [clockCall EXCEPT
                       !.op = "now",
                       !.threads[t] = [pc |-> "now",
                                       seq |-> AtomicU64_load(clock)]]
    /\ UNCHANGED <<snapVars, clock, coreVars, dslVars, capVars, memVars>>

\* Thread t leaves now() with LogicalTime::new(run_id, seq).
NowReturn(t) ==
    /\ clockCall.threads[t].pc = "now"
    /\ clockCall' = [clockCall EXCEPT
                       !.op = "now",
                       !.threads[t] = [pc |-> "idle", seq |-> 0],
                       !.nows[t] = Append(@, LogicalTime_new(
                                     ClockRunId, clockCall.threads[t].seq))]
    /\ UNCHANGED <<snapVars, clock, coreVars, dslVars, capVars, memVars>>

ClockNext ==
    \/ \E t \in Threads : TickFetch(t)
    \/ \E t \in Threads : TickReturn(t)
    \/ \E t \in Threads : NowLoad(t)
    \/ \E t \in Threads : NowReturn(t)

(***************************************************************************)
(* Divergence detection (replay.rs detect_divergence): two logs of the     *)
(* same run are recorded independently, a replay engine is made from each, *)
(* and the first is asked for its divergences from the second.             *)
(***************************************************************************)
DivergencePoint(position, event_id, expected, actual, diff) ==
    [position |-> position, event_id |-> event_id, expected |-> expected,
     actual |-> actual, diff |-> diff]

\* diff_events: the first of kind and payload hash that differs.
ReplayEngine_diff_events(e1, e2) ==
    IF e1.kind # e2.kind THEN <<"Kind: ", e1.kind, " vs ", e2.kind>>
    ELSE IF e1.payload_hash # e2.payload_hash
    THEN <<"Payload: ", e1.payload_hash, " vs ", e2.payload_hash>>
    ELSE <<"Unknown difference">>

\* detect_divergence as it would be if it stopped silently where one log
\* ends.
RECURSIVE ReplayEngine_divergence_no_length_entry(_, _, _)
ReplayEngine_divergence_no_length_entry(self, other, pos) ==
    LET event1 == EventLog_get_by_sequence(self.log, pos)
        event2 == EventLog_get_by_sequence(other.log, pos)
    IN  IF is_some(event1) /\ is_some(event2)
        THEN (IF Event_event_hash(unwrap(event1))
                    # Event_event_hash(unwrap(event2))
              THEN <<DivergencePoint(
                        pos, unwrap(event1).id,
                        Event_event_hash(unwrap(event1)),
                        Event_event_hash(unwrap(event2)),
                        ReplayEngine_diff_events(unwrap(event1),
                                                 unwrap(event2)))>>
              ELSE <<>>)
             \o ReplayEngine_divergence_no_length_entry(self, other, pos + 1)
        ELSE <<>>

\* The loop of detect_divergence from position pos on.
RECURSIVE ReplayEngine_divergence_from(_, _, _)
ReplayEngine_divergence_from(self, other, pos) ==
    LET event1 == EventLog_get_by_sequence(self.log, pos)
        event2 == EventLog_get_by_sequence(other.log, pos)
    IN  IF is_some(event1) /\ is_some(event2)
        THEN (IF Event_event_hash(unwrap(event1))
                    # Event_event_hash(unwrap(event2))
              THEN <<DivergencePoint(
                        pos, unwrap(event1).id,
                        Event_event_hash(unwrap(event1)),
                        Event_event_hash(unwrap(event2)),
                        ReplayEngine_diff_events(unwrap(event1),
                                                 unwrap(event2)))>>
              ELSE <<>>)
             \o ReplayEngine_divergence_from(self, other, pos + 1)
        ELSE IF is_some(event1) \/ is_some(event2)
        THEN <<DivergencePoint(pos, EventId_new(0, pos), Hash_zero,
                               Hash_zero, <<"Different event count">>)>>
        ELSE <<>>

ReplayEngine_detect_divergence(self, other) ==
    ReplayEngine_divergence_from(self, other, 0)

\* Event::new(..).with_state_hashes(..) for the ids of the log's run.
RunEventsOf(p) ==
    {[Event_new(EventId_new(LogRunId, s), EventPayload_kind(p),
                LogicalTime_new(LogRunId, s), p)
         EXCEPT !.state_hash_before = sh[1], !.state_hash_after = sh[2]] :
        s \in 0..MaxLen, sh \in StateHashPairs(p)}

RunEvents == UNION {RunEventsOf(p) : p \in Payloads}

DivergeInit ==
    /\ manager = <<>>
    /\ managerAdds = <<>>
    /\ managerCall = [op |-> "none"]
    /\ plan = <<>>
    /\ planCall = [op |-> "none"]
    /\ checker = {}
    /\ capCall = [op |-> "none"]
    /\ mem = <<>>
    /\ memCall = [op |-> "none"]
    /\ clock = 0
    /\ clockCall = [op |-> "none"]
    /\ log = EventLog_new(LogRunId)
    /\ logCall = [op |-> "new"]
    /\ engines = <<ReplayEngine_new(EventLog_new(LogRunId)),
                   ReplayEngine_new(EventLog_new(LogRunId))>>
    /\ agent = AgentState_initial
    /\ agentCall = [op |-> "none", domain |-> "", existed |-> FALSE]
    /\ dag = [nodes |-> {}, edges |-> [n \in {} |-> {}],
              reverse_edges |-> [n \in {} |-> {}]]
    /\ dagCall = [op |-> "none"]
    /\ sched = [ready |-> <<>>, pending |-> [n \in {} |-> <<>>],
                running |-> {}, max_concurrent |-> 0]
    /\ schedPhase = "none"
    /\ schedCall = [op |-> "none"]
    /\ returned = <<>>
    /\ started = {}
    /\ completes = 0
    /\ policies = <<>>
    /\ policyCall = [op |-> "none"]
    /\ store = [id \in {} |-> <<>>]
    /\ applied = [id \in {} |-> <<>>]
    /\ patchPhase = "none"
    /\ patchCall = [op |-> "none"]

\* The log of run i receives one more event and its engine is made anew:
\* log_i.append(event); ReplayEngine::new(log_i.clone()).
RecordEvent(i, event) ==
    /\ EventLog_len(engines[i].log) < MaxLen
    /\ LET r == EventLog_append(engines[i].log, event)
       IN  /\ engines' = [engines EXCEPT ![i] = ReplayEngine_new(r.log)]
           /\ logCall' = [op |-> "append", result |-> r.result]
    /\ UNCHANGED <<snapVars, log, agentVars, planVars, policyVars, patchVars,
                   moreVars>>

\* engines[i].detect_divergence(&engines[j]).
DetectDivergence(i, j) ==
    /\ logCall' = [op |-> "detect_divergence", self |-> i, other |-> j,
                   result |-> ReplayEngine_detect_divergence(engines[i],
                                                             engines[j])]
    /\ UNCHANGED <<snapVars,
                   log, engines, agentVars, planVars, policyVars, patchVars,
                   moreVars>>

DivergeNext ==
    \/ \E i \in 1..2, event \in RunEvents : RecordEvent(i, event)
    \/ \E i \in 1..2 : DetectDivergence(i, 3 - i)

(***************************************************************************)
(* replay.rs Snapshot and SnapshotManager: the snapshots of a run, kept in *)
(* a BTreeMap by position.                                                 *)
(***************************************************************************)
MaxAdds == 3

Snapshot_new(id, run_id, position, state) ==
    [id |-> id, run_id |-> run_id, position |-> position, state |-> state,
     state_hash |-> AgentState_hash(state), event_hash |-> Hash_zero]

SnapshotManager_new == [p \in {} |-> <<>>]

\* add with entry(position).or_insert(snapshot) in place of insert.
SnapshotManager_add_keeps_first(snapshots, snapshot) ==
    IF snapshot.position \in DOMAIN snapshots THEN snapshots
    ELSE [p \in (DOMAIN snapshots) \cup {snapshot.position} |->
             IF p = snapshot.position THEN snapshot ELSE snapshots[p]]

\* BTreeMap::insert: the snapshot takes the place of one stored at its
\* position.
SnapshotManager_add(snapshots, snapshot) ==
    [p \in (DOMAIN snapshots) \cup {snapshot.position} |->
        IF p = snapshot.position THEN snapshot ELSE snapshots[p]]

\* range(..=position).next_back(): the entry of the last key of the range.
SnapshotManager_get_snapshot_before(snapshots, position) ==
    LET range == {p \in DOMAIN snapshots : p <= position}
    IN  IF range = {} THEN None
        ELSE Some(snapshots[CHOOSE p \in range : \A q \in range : q <= p])

SnapshotPositions == {10, 20}
QueryPositions == {5, 10, 15, 20, 25}

SnapshotSet ==
    {Snapshot_new(id, 1, position, AgentState_with_run_id(1)) :
        id \in {"s1", "s2"}, position \in SnapshotPositions}

SnapInit ==
    /\ manager = SnapshotManager_new
    /\ managerAdds = <<>>
    /\ managerCall = [op |-> "new"]
    /\ plan = <<>>
    /\ planCall = [op |-> "none"]
    /\ checker = {}
    /\ capCall = [op |-> "none"]
    /\ mem = <<>>
    /\ memCall = [op |-> "none"]
    /\ clock = 0
    /\ clockCall = [op |-> "none"]
    /\ policies = <<>>
    /\ agent = AgentState_initial
    /\ agentCall = [op |-> "none", domain |-> "", existed |-> FALSE]
    /\ log = [run_id |-> 0, events |-> <<>>, index |-> [k \in {} |-> 0]]
    /\ logCall = [op |-> "none"]
    /\ engines = <<>>
    /\ dag = [nodes |-> {}, edges |-> [n \in {} |-> {}],
              reverse_edges |-> [n \in {} |-> {}]]
    /\ dagCall = [op |-> "none"]
    /\ sched = [ready |-> <<>>, pending |-> [n \in {} |-> <<>>],
                running |-> {}, max_concurrent |-> 0]
    /\ schedPhase = "none"
    /\ schedCall = [op |-> "none"]
    /\ returned = <<>>
    /\ started = {}
    /\ completes = 0
    /\ store = [id \in {} |-> <<>>]
    /\ applied = [id \in {} |-> <<>>]
    /\ patchPhase = "none"
    /\ patchCall = [op |-> "none"]
    /\ policyCall = [op |-> "none"]

SnapshotAdd(snapshot) ==
    /\ Len(managerAdds) < MaxAdds
    /\ manager' = SnapshotManager_add(manager, snapshot)
    /\ managerAdds' = Append(managerAdds, snapshot)
    /\ managerCall' = [op |-> "add"]
    /\ UNCHANGED <<coreVars, moreVars>>

GetSnapshotBefore(position) ==
    /\ managerCall' =
          [op |-> "get_snapshot_before", position |-> position,
           result |-> SnapshotManager_get_snapshot_before(manager,
                                                          position)]
    /\ UNCHANGED <<manager, managerAdds, coreVars, moreVars>>

SnapNext ==
    \/ \E snapshot \in SnapshotSet : SnapshotAdd(snapshot)
    \/ \E position \in QueryPositions : GetSnapshotBefore(position)

(***************************************************************************)
(* Properties of the agent state (checked under SpecState).                *)
(***************************************************************************)

\* C6: in every state reached from initial() or with_run_id(r) by set and
\* remove calls (none included), state_hash = hash_canonical(data).  The code
\* breaks it in the state initial() returns: its state_hash is the zero hash,
\* not the hash of the empty map.
C6_StateHashDeterminism ==
    agent.state_hash = Hash_from_canonical_data(agent.data)

\* C25: set increments version by exactly one and recomputes state_hash on
\* every call, touching no other domain; remove does the same only when the
\* domain existed, and otherwise leaves version, data and state_hash as they
\* were.
C25_SetRemoveFrame ==
    [][LET domain == agentCall'.domain
           existed == domain \in DOMAIN agent.data
           rehashed == agent'.state_hash
                          = Hash_from_canonical_data(agent'.data)
           others == \A k \in DOMAIN agent.data \ {domain} :
                        k \in DOMAIN agent'.data
                        /\ agent'.data[k] = agent.data[k]
       IN  /\ agentCall'.op = "set" =>
                  /\ agent'.version = agent.version + 1
                  /\ DOMAIN agent'.data = DOMAIN agent.data \cup {domain}
                  /\ others
                  /\ rehashed
           /\ (agentCall'.op = "remove" /\ existed) =>
                  /\ agent'.version = agent.version + 1
                  /\ DOMAIN agent'.data = DOMAIN agent.data \ {domain}
                  /\ others
                  /\ rehashed
           /\ (agentCall'.op = "remove" /\ ~existed) =>
                  agent' = agent]_vars

\* Reached: a remove of an absent domain on a state that earlier calls have
\* filled, so that version and hash are not the initial ones.
C25_Witness ==
    /\ agentCall.op = "remove"
    /\ ~agentCall.existed
    /\ agent.version >= 2
    /\ agent.data # EmptyMap

(***************************************************************************)
(* Properties of the event log and of replay (checked under SpecLog).      *)
(***************************************************************************)

\* C1: the event stored at position i has id.sequence = i and the log's
\* run_id, so the stored sequences are exactly 0..len-1, each once.
C1_DenseLog ==
    /\ \A i \in 1..Len(log.events) :
          /\ log.events[i].id.sequence = i - 1
          /\ log.events[i].id.run_id = log.run_id
    /\ {log.events[i].id.sequence : i \in 1..Len(log.events)}
          = 0..(Len(log.events) - 1)
    /\ \A i, j \in 1..Len(log.events) :
          log.events[i].id.sequence = log.events[j].id.sequence => i = j

C1_Witness ==
    /\ Len(log.events) = 2
    /\ logCall.op = "append"
    /\ logCall.result = "CorruptedLog"

\* Every stored event with a parent names the id of an event stored at a
\* strictly earlier position.
ParentClosure ==
    \A i \in 1..Len(log.events) :
        is_some(log.events[i].parent_id) =>
            \E j \in 1..(i - 1) :
                log.events[j].id = unwrap(log.events[i].parent_id)

\* C2 as stated: parent closure, and every append of an event whose parent
\* is not stored comes back ParentNotFound.
C2_Original ==
    /\ ParentClosure
    /\ (logCall.op = "append" /\ logCall.parent = "missing")
          => logCall.result = "ParentNotFound"

\* C2 as amended: parent closure, and an append of an event whose parent is
\* not stored is refused: with ParentNotFound when the event's run_id and
\* sequence are the expected ones, with CorruptedLog (the earlier checks)
\* when they are not.
C2_ParentClosure ==
    /\ ParentClosure
    /\ (logCall.op = "append" /\ logCall.parent = "missing")
          => logCall.result =
                IF logCall.run_ok /\ logCall.seq_ok
                THEN "ParentNotFound" ELSE "CorruptedLog"

C2_Witness ==
    /\ Len(log.events) = 2
    /\ is_some(log.events[2].parent_id)
    /\ logCall.op = "append"
    /\ logCall.result = "ParentNotFound"

\* C3: an append whose sequence differs from len() returns CorruptedLog and
\* changes neither the events nor the index; an append with sequence = len(),
\* the log's run_id, no or a stored parent and a correct payload hash returns
\* Ok and len() grows by one.
C3_SequenceCheck ==
    [][logCall'.op = "append" =>
         /\ ~logCall'.seq_ok =>
               /\ logCall'.result = "CorruptedLog"
               /\ log' = log
         /\ (/\ logCall'.seq_ok /\ logCall'.run_ok
             /\ logCall'.parent # "missing" /\ logCall'.hash_ok) =>
               /\ logCall'.result = "Ok"
               /\ Len(log'.events) = Len(log.events) + 1
               /\ SubSeq(log'.events, 1, Len(log.events)) = log.events]_vars

C3_Witness ==
    /\ Len(log.events) = 1
    /\ logCall.op = "append"
    /\ ~logCall.seq_ok /\ logCall.run_ok
    /\ logCall.parent # "missing" /\ logCall.hash_ok
    /\ logCall.result = "CorruptedLog"

\* Every stored event carries the hash of its own payload, and verify on a
\* log built by append counts no failure.
StoredHashesValid ==
    /\ \A i \in 1..Len(log.events) :
          log.events[i].payload_hash
             = EventPayload_hash(log.events[i].payload)
    /\ logCall.op = "verify" =>
          /\ logCall.report.hash_failures = 0
          /\ logCall.report.verified_events = logCall.report.total_events
          /\ logCall.report.total_events = Len(log.events)

\* C4 as stated: stored hashes are valid, verify counts no failure, and every
\* append of an event with a wrong payload_hash comes back HashMismatch.
C4_Original ==
    /\ StoredHashesValid
    /\ (logCall.op = "append" /\ ~logCall.hash_ok)
          => logCall.result = "HashMismatch"

\* C4 as amended: stored hashes are valid, verify counts no failure, and an
\* append of an event with a wrong payload_hash is refused: with HashMismatch
\* when the run_id, sequence and parent checks pass, with the error of the
\* first of those checks that fails otherwise.
C4_PayloadHash ==
    /\ StoredHashesValid
    /\ (logCall.op = "append" /\ ~logCall.hash_ok)
          => logCall.result =
                IF ~(logCall.run_ok /\ logCall.seq_ok) THEN "CorruptedLog"
                ELSE IF logCall.parent = "missing" THEN "ParentNotFound"
                ELSE "HashMismatch"

C4_Witness ==
    /\ logCall.op = "verify"
    /\ logCall.report.total_events = 2
    /\ logCall.report.verified_events = 2

\* C5: two engines made from the same log and initial state that have both
\* replayed to the end hold the same state (hash included); replay_all ends
\* at position = len(); the events applied so far are 0, 1, ... in order,
\* each once; and the engine's log stays the log it was made from.
C5_ReplayDeterministic ==
    engines # <<>> =>
        /\ \A i \in 1..2 :
              /\ engines[i].log = log
              /\ engines[i].applied
                    = [k \in 1..engines[i].position |-> k - 1]
              /\ engines[i].position <= Len(log.events)
        /\ logCall.op = "replay_all" =>
              engines[logCall.engine].position = Len(log.events)
        /\ (ReplayEngine_is_complete(engines[1])
            /\ ReplayEngine_is_complete(engines[2])) =>
              /\ AgentState_hash(engines[1].current_state)
                    = AgentState_hash(engines[2].current_state)
              /\ engines[1].current_state = engines[2].current_state

C5_Witness ==
    /\ engines # <<>>
    /\ Len(log.events) = 3
    /\ logCall.op = "replay_all"
    /\ engines[1].position = 3
    /\ engines[2].position = 3
    /\ engines[1].current_state.version >= 2

(***************************************************************************)
(* Properties of the DAG and the scheduler (checked under SpecSched).      *)
(***************************************************************************)

\* The nodes start() was called for and complete() too.
Completed == started \ sched.running

NoDuplicates(q) == \A i, j \in 1..Len(q) : i # j => q[i] # q[j]

\* C7: scheduler liveness.  For a DAG of n nodes and a cap >= 1, the driver
\* that calls next(), start() on each returned node and complete() on each
\* started node gets every node from next() exactly once: no node is returned
\* twice, and once the scheduler reports is_complete() with every returned
\* node started and completed, all n nodes have been returned and exactly n
\* complete() calls were made.  The code breaks it for every DAG with an
\* edge: initialize fails on topological_order's error, nothing is ever
\* ready, and is_complete() holds with no node dispatched.
C7_SchedulerLiveness ==
    schedPhase \in {"initialized", "failed"} =>
        /\ NoDuplicates(returned)
        /\ ( /\ Scheduler_is_complete(sched)
             /\ started = Range(returned) )
           => /\ Range(returned) = dag.nodes
              /\ completes = Dag_len(dag)

\* C8: scheduler backpressure.  With cap k the number of nodes next() has
\* handed out and complete() has not yet been called for never exceeds k; in
\* particular, with 5 independent nodes and k = 2, consecutive next() calls
\* return a node at most twice.  The code breaks it: next() counts only the
\* nodes start() was called for, so a third consecutive next() returns Some.
C8_Backpressure ==
    schedPhase = "initialized" =>
        /\ Len(returned) - completes <= sched.max_concurrent
        /\ ( /\ Dag_len(dag) = 5
             /\ \A n \in dag.nodes : dag.edges[n] = {}
             /\ sched.max_concurrent = 2
             /\ started = {} )
           => Len(returned) <= 2

\* C9: dependency order.  Right after initialize exactly the nodes without
\* incoming edges are ready, and every node next() has returned has all the
\* nodes it depends on (the sources of its incoming edges) completed.  The
\* code breaks it for the DAG with the single edge a -> b: initialize fails
\* and a is not ready.
C9_DependencyOrder ==
    /\ schedCall.op = "initialize" =>
          Range(sched.ready)
              = {n \in dag.nodes : Dag_dependents(dag, n) = {}}
    /\ \A i \in 1..Len(returned) :
          Dag_dependents(dag, returned[i]) \subseteq Completed

\* C10: for every DAG built by add_node and successful add_edge calls,
\* topological_order() returns Ok with a permutation of all node ids in which
\* from comes before to for every edge from -> to.  The code breaks it for
\* every DAG with an edge: it returns CycleDetected.
C10_TopologicalOrder ==
    dagCall.op = "topological_order" =>
        LET r == dagCall.result
        IN  /\ r.ok
            /\ Range(r.order) = dag.nodes
            /\ Len(r.order) = Dag_len(dag)
            /\ \A i, j \in 1..Len(r.order) :
                  r.order[j] \in dag.edges[r.order[i]] => i < j

\* The nodes whose dependencies (the sources of their incoming edges) have
\* all completed.
Dispatchable ==
    {n \in dag.nodes : Dag_dependents(dag, n) \subseteq Completed}

C11_CycleRejected ==
    [][dagCall'.op = "add_edge" =>
         /\ dagCall'.closes =>
               /\ dagCall'.result[1] = "CycleDetected"
               /\ dagCall'.named
         /\ dagCall'.result # DagOk => dag' = dag]_vars

\* A cycle refused through a path of two edges.
C11_Witness ==
    /\ dagCall.op = "add_edge"
    /\ \E from \in dag.nodes, to \in dag.nodes :
          /\ dagCall.result = CycleDetected(from, to)
          /\ from # to
          /\ from \notin dag.edges[to]
          /\ PathExists(dag, to, from)

\* The (from, to) pairs a map from node ids to sets of node ids holds.
PairsOf(map) == UNION {{<<k, v>> : v \in map[k]} : k \in DOMAIN map}

\* C38: whatever add_node and add_edge calls were made, successful or
\* failed, edges and reverse_edges are mutual inverses (to is in edges[from]
\* iff from is in reverse_edges[to]), both ends of every edge are nodes, and
\* no node is reached from itself along one or more edges.
C38_DagWellFormed ==
    /\ PairsOf(dag.reverse_edges)
          = {<<e[2], e[1]>> : e \in PairsOf(dag.edges)}
    /\ \A e \in PairsOf(dag.edges) \cup PairsOf(dag.reverse_edges) :
          e[1] \in dag.nodes /\ e[2] \in dag.nodes
    /\ \A n \in dag.nodes : n \notin Reachable(dag, dag.edges[n])

\* A DAG of two edges on which an add_edge has just been refused and an
\* add_node of a duplicate can follow.
C38_Witness ==
    /\ dagCall.op = "add_edge"
    /\ dagCall.result[1] = "CycleDetected"
    /\ EdgeCount(dag) >= 2
    /\ \E n \in dag.nodes : dag.edges[n] # {} /\ dag.reverse_edges[n] # {}

\* C39: is_complete() is true only when every node of the initialised DAG
\* has been returned by next() and passed to complete(): never while a node
\* returned by next() is not yet started or not yet completed.
C39_CompleteMeansAllDone ==
    (schedPhase = "initialized" /\ Scheduler_is_complete(sched)) =>
       /\ dag.nodes \subseteq Range(returned)
       /\ Range(returned) \subseteq started
       /\ sched.running = {}
       /\ completes >= Cardinality(dag.nodes)

\* The lexicographically least order of the nodes not in done that puts the
\* source of every edge before its target: at each step the smallest node
\* whose incoming edges all come from done.
RECURSIVE LeastOrder(_, _)
LeastOrder(d, done) ==
    LET free == {n \in d.nodes \ done : d.reverse_edges[n] \subseteq done}
    IN  IF free = {} THEN <<>>
        ELSE LET n == SortedNodes(free)[1]
             IN  <<n>> \o LeastOrder(d, done \cup {n})

\* C21: topological_order() breaks ties by lexicographic id, smallest first:
\* an Ok result is the lexicographically least topological order of the
\* DAG.  The code breaks it for two nodes without edges: it pops the largest
\* id of the sorted queue first.
C21_LeastTopologicalOrder ==
    (dagCall.op = "topological_order" /\ dagCall.result.ok) =>
        dagCall.result.order = LeastOrder(dag, {})

(***************************************************************************)
(* Properties of the policy engine (checked under SpecPolicy).             *)
(***************************************************************************)
IsEvaluate == policyCall.op \in {"tool", "capability", "patch"}

\* The positions of the matched rules whose action is a Deny.
MatchedDenies ==
    {i \in 1..Len(policyCall.matched) : policyCall.matched[i][1] = "Deny"}

C13_DenyDominates ==
    (IsEvaluate /\ MatchedDenies # {}) =>
       LET first == CHOOSE k \in MatchedDenies :
                       \A j \in MatchedDenies : k <= j
       IN  /\ ~policyCall.result.allowed
           /\ policyCall.result.reason = policyCall.matched[first][2]

\* A call that matched an Allow and then a Deny, and answered with the
\* Deny's reason.
C13_Witness ==
    /\ IsEvaluate
    /\ Len(policyCall.matched) = 2
    /\ policyCall.matched[1] = Allow
    /\ policyCall.matched[2][1] = "Deny"
    /\ ~policyCall.result.allowed
    /\ policyCall.result.reason = policyCall.matched[2][2]

\* The context a rule's condition is weighed in by an evaluate call of kind
\* op: the context passed in, with the tool or patch type asked about set
\* and, for a capability request, the requested capability inserted.
ContextOf(op, subject, context) ==
    CASE op = "tool" -> [context EXCEPT !.tool = Some(subject)]
      [] op = "capability" ->
            [context EXCEPT !.capabilities = @ \cup {subject}]
      [] op = "patch" -> [context EXCEPT !.patch_type = Some(subject)]

KindOf(op) ==
    CASE op = "tool" -> "Tool"
      [] op = "capability" -> "Capability"
      [] op = "patch" -> "Patch"

\* The actions of the rules of ps, in order, whose kind is the evaluated
\* kind and whose condition is true in ctx.
RECURSIVE UniformMatches(_, _, _)
UniformMatches(ps, kind, ctx) ==
    IF ps = <<>> THEN <<>>
    ELSE LET rules == Head(ps).rules
             hit == SelectSeq(rules,
                       LAMBDA r : /\ r.kind = kind
                                  /\ PolicyEngine_evaluate_condition(
                                        r.condition, ctx))
         IN  [i \in 1..Len(hit) |-> hit[i].action]
             \o UniformMatches(Tail(ps), kind, ctx)

\* C34: the three evaluate calls match rules the same way: a rule is matched
\* exactly when its kind is the evaluated kind and its condition is true in
\* the context, HasCapability(c) being true iff the context holds c or a
\* capability ending in "*" whose prefix c starts with.
C34_UniformMatching ==
    policyCall.op \in {"tool", "capability", "patch"} =>
       policyCall.matched
          = UniformMatches(policies, KindOf(policyCall.op),
                           ContextOf(policyCall.op, policyCall.subject,
                                     policyCall.context))


(***************************************************************************)
(* Properties of the patch engine (checked under SpecPatch).               *)
(***************************************************************************)
IsEngineCall(op) == patchPhase = "engine" /\ patchCall.op = op

CallSucceeded == patchCall.result[1] = "Ok"

\* The place of a status on Proposed -> Tested -> Audited -> Approved ->
\* Applied, with Rejected and RolledBack after them all.
StatusRank(status) ==
    CASE status = Proposed -> 1
      [] status = Tested -> 2
      [] status = Audited -> 3
      [] status = Approved -> 4
      [] status = Applied -> 5
      [] OTHER -> 6

\* C14: under the PatchEngine operations the status of a patch only moves
\* forward along Proposed -> Tested -> Audited -> Approved -> Applied or into
\* Rejected / RolledBack, and never back to an earlier status.
C14_StatusMonotone ==
    [][patchPhase = "engine" =>
          \A id \in DOMAIN store :
             /\ id \in DOMAIN store'
             /\ StatusRank(store'[id].status) >= StatusRank(store[id].status)
      ]_vars

\* C15: apply succeeds only for a patch whose status is Approved.
C15_ApplyOnlyApproved ==
    (IsEngineCall("apply") /\ CallSucceeded) =>
       patchCall.before = Some(Approved)

\* C16: apply on a patch whose status is Proposed returns NotApproved and
\* leaves the agent state, the patch status and the applied-patch records
\* as they were.
C16_ProposedNotApplied ==
    (IsEngineCall("apply") /\ patchCall.before = Some(Proposed)) =>
       /\ patchCall.result = NotApproved
       /\ ~patchCall.state_changed
       /\ ~patchCall.status_changed
       /\ ~patchCall.applied_changed

\* An apply on a Proposed patch of a supported target, refused, in an engine
\* that has applied another patch before.
C16_Witness ==
    /\ IsEngineCall("apply")
    /\ patchCall.before = Some(Proposed)
    /\ patchCall.result = NotApproved
    /\ store[patchCall.id].status = Proposed
    /\ store[patchCall.id].patch.target = SystemPrompt
    /\ DOMAIN applied # {}

\* C28: apply of an approved patch whose target is none of SystemPrompt,
\* Config(k) and Policy(n) fails with ApplicationFailed and leaves the agent
\* state, the patch status (still Approved) and the applied-patch records
\* as they were.
C28_UnsupportedTargetFails ==
    (/\ IsEngineCall("apply")
     /\ patchCall.before = Some(Approved)
     /\ store[patchCall.id].patch.target[1]
            \notin {"SystemPrompt", "Config", "Policy"}) =>
       /\ patchCall.result[1] = "ApplicationFailed"
       /\ ~patchCall.state_changed
       /\ ~patchCall.status_changed
       /\ store[patchCall.id].status = Approved
       /\ ~patchCall.applied_changed

\* Reached: apply of the approved Tool patch, refused.
C28_Witness ==
    /\ IsEngineCall("apply")
    /\ patchCall.before = Some(Approved)
    /\ store[patchCall.id].patch.target = TargetTool("echo")
    /\ patchCall.result = ApplicationFailed("Target type not implemented")
    /\ patchCall.id \notin DOMAIN applied

\* C17: approve succeeds only for a signer of the authorised-signer list and
\* a signature that is not all zero; otherwise it fails with NotApproved and
\* leaves the status as it was.
C17_ApproveAuthorised ==
    IsEngineCall("approve") =>
       IF /\ patchCall.signed[2] \in AuthorizedSigners
          /\ patchCall.signed[1].bytes # ZeroByte
       THEN TRUE
       ELSE /\ patchCall.result = NotApproved
            /\ ~patchCall.status_changed

\* C18: rollback succeeds only for a patch whose status is Applied; on any
\* other patch it fails and leaves the agent state and the status alone.
C18_RollbackOnlyApplied ==
    (IsEngineCall("rollback") /\ patchCall.before # Some(Applied)) =>
       /\ ~CallSucceeded
       /\ ~patchCall.state_changed
       /\ ~patchCall.status_changed

\* C19: after a successful rollback of an applied patch the agent state's
\* hash is the before_hash of the patch's application and the status is
\* RolledBack.
C19_RollbackRestores ==
    (IsEngineCall("rollback") /\ CallSucceeded) =>
       /\ AgentState_hash(agent) = applied[patchCall.id].before_hash
       /\ store[patchCall.id].status[1] = "RolledBack"

\* Whether neither screen of the audit gate hits patch: no injection phrase
\* in the reasoning of a Prompt patch, no dangerous marker in the data.
ScreensClean(patch) ==
    /\ ~(patch.patch_type = "Prompt" /\ contains_injection(patch.reasoning))
    /\ ~contains_dangerous_content(patch.data)

\* C35: whatever policy the run holds, the audit gate passes a stored patch
\* when that policy allows its patch type under a Patch-kind rule and no
\* screen hits, and fails it when the policy denies the patch type or a
\* screen hits.
C35_AuditGateFollowsPolicy ==
    (IsEngineCall("audit_gate") /\ CallSucceeded) =>
       LET patch == store[patchCall.id].patch
       IN  \A policy \in PoliciesOf(1, PolicyNames[1]) :
              LET allowed ==
                      PolicyEngine_evaluate_patch(<<policy>>,
                                                  Str(patch.patch_type),
                                                  EvalContext_new).allowed
              IN  (patchCall.result[2] = Passed)
                     <=> (allowed /\ ScreensClean(patch))

\* C36: the gates advance the status in order: a passing test gate leaves a
\* Proposed patch Tested, a passing audit gate leaves a Tested patch
\* Audited, and approve succeeds only on a patch that is Audited.
C36_GatesAdvanceInOrder ==
    /\ (IsEngineCall("test_gate") /\ CallSucceeded
           /\ patchCall.result[2] = Passed
           /\ patchCall.before = Some(Proposed))
          => StatusOf(store, patchCall.id) = Some(Tested)
    /\ (IsEngineCall("audit_gate") /\ CallSucceeded
           /\ patchCall.result[2] = Passed
           /\ patchCall.before = Some(Tested))
          => StatusOf(store, patchCall.id) = Some(Audited)
    /\ (IsEngineCall("approve") /\ CallSucceeded)
          => patchCall.before = Some(Audited)

(***************************************************************************)
(* Properties of plan compilation (checked under SpecPlan).                *)
(***************************************************************************)

\* C22: compile rejects every plan that has a step with timeout_ms = 0, a
\* duplicate step id or a dependency on an unknown step, so every node of a
\* DAG it returns has timeout_ms > 0.
C22_CompileValidatesTimeout ==
    (planCall.op = "compile" /\ planCall.result.ok) =>
        /\ PlanValidator_validate(plan) = ValidationOk
        /\ \A n \in planCall.result.dag.nodes :
               planCall.result.node_resources[n] > 0

\* C23 (checked under SpecStamp): every event the log stores has
\* timestamp.run_id = id.run_id; append never accepts an event whose
\* timestamp belongs to another run than its id.
C23_TimestampRun ==
    \A i \in 1..Len(log.events) :
        log.events[i].timestamp.run_id = log.events[i].id.run_id

\* The engine ReplayEngine::new(l) after its first p steps.
RECURSIVE ReplayedTo(_, _)
ReplayedTo(l, p) ==
    IF p = 0 THEN ReplayEngine_new(l)
    ELSE ReplayEngine_step(ReplayedTo(l, p - 1))

\* The positions of l at which a replay from the initial state meets a
\* StateTransition event whose recorded state_hash_before is not the hash
\* of the state replayed so far.
StateMismatches(l) ==
    {p \in 0..(EventLog_len(l) - 1) :
        LET event == l.events[p + 1]
        IN  /\ event.payload.variant = "StateTransition"
            /\ is_some(event.state_hash_before)
            /\ AgentState_hash(ReplayedTo(l, p).current_state)
                  # unwrap(event.state_hash_before)}

\* C31 (checked under SpecLog): verify counts in state_mismatches every
\* StateTransition event whose recorded state_hash_before differs from the
\* state hash replay has reached, so a log that holds such an event is
\* reported as not valid.
C31_VerifyCountsMismatches ==
    logCall.op = "verify" =>
       /\ logCall.report.state_mismatches = Cardinality(StateMismatches(log))
       /\ StateMismatches(log) # {} =>
              ~VerificationReport_is_valid(logCall.report)

\* C24 (checked under SpecLog): the log is append-only.  No operation, an
\* accepted or rejected append or a read by a replay engine, changes or
\* removes a stored event: the log after a step has the log before it as a
\* prefix, and len() never decreases.
C24_AppendOnly ==
    [][/\ EventLog_len(log') >= EventLog_len(log)
       /\ \A i \in 1..EventLog_len(log) :
              /\ log'.events[i] = log.events[i]
              /\ EventLog_get_by_sequence(log', i - 1)
                     = EventLog_get_by_sequence(log, i - 1)]_vars

\* Reached: a rejected append on a log that already stores two events.
C24_Witness ==
    /\ logCall.op = "append"
    /\ logCall.result # "Ok"
    /\ EventLog_len(log) >= 2

\* A plan in which every step has an id of its own and depends only on
\* steps added before it, so that its dependency relation has no cycle.
WellFormedPlan(p) ==
    /\ \A i, j \in 1..Len(p) : i # j => p[i].id # p[j].id
    /\ \A i \in 1..Len(p) :
           \A k \in 1..Len(p[i].dependencies) :
               \E j \in 1..(i - 1) : p[j].id = p[i].dependencies[k]

\* C33: compile turns the declared dependencies into the DAG's edges.  A
\* plan whose steps depend only on earlier steps compiles, and then for
\* every step s dependencies(s.id) is the set of ids s declares and
\* dependents(d) holds s.id for each of them (for b depending on a,
\* dependencies("b") contains "a").
C33_CompiledDependencies ==
    (planCall.op = "compile" /\ WellFormedPlan(plan)) =>
       /\ planCall.result.ok
       /\ \A i \in 1..Len(plan) :
              /\ Dag_dependencies(planCall.result.dag, plan[i].id)
                    = Range(plan[i].dependencies)
              /\ \A d \in Range(plan[i].dependencies) :
                     plan[i].id \in Dag_dependents(planCall.result.dag, d)

(***************************************************************************)
(* Properties of capabilities (checked under SpecCaps).                    *)
(***************************************************************************)

\* C26: capability monotonicity.  Whatever check or check_all grants to a
\* checker holding a subset of the granted set, it grants to the checker
\* itself: removing capabilities never turns Denied into Granted.
C26_CapabilityMonotone ==
    /\ capCall.op = "check_all" =>
           \A smaller \in SUBSET checker :
               CheckResult_is_granted(
                   CapabilityChecker_check_all(
                       CapabilityChecker_new(CapabilitySet_new(smaller)),
                       capCall.required))
               => CheckResult_is_granted(capCall.result)
    /\ capCall.op = "check" =>
           \A smaller \in SUBSET checker :
               CheckResult_is_granted(
                   CapabilityChecker_check(
                       CapabilityChecker_new(CapabilitySet_new(smaller)),
                       capCall.capability))
               => CheckResult_is_granted(capCall.result)

\* Reached: check_all grants two required capabilities to a checker that
\* holds a third one, and denies them to a checker without one of them.
C26_Witness ==
    /\ capCall.op = "check_all"
    /\ Len(capCall.required) = 2
    /\ capCall.required[1] # capCall.required[2]
    /\ CheckResult_is_granted(capCall.result)
    /\ Cardinality(checker) >= 3
    /\ ~CheckResult_is_granted(
           CapabilityChecker_check_all(checker \ {capCall.required[2]},
                                       capCall.required))

\* C27: a set that holds the wildcard capability fs:read:* covers what the
\* wildcard names: has_pattern("fs:read:*") and has_pattern("fs:read:/tmp")
\* are true and has_pattern("fs:write:*") is false.
C27_WildcardCovers ==
    (capCall.op = "has_pattern" /\ checker = {CapFsReadAny}) =>
        /\ capCall.pattern = CapFsReadAny => capCall.result
        /\ capCall.pattern = CapFsReadTmp => capCall.result
        /\ capCall.pattern = CapFsWriteAny => ~capCall.result

(***************************************************************************)
(* Properties of the memory store (checked under SpecMem).                 *)
(***************************************************************************)

\* C29: memory writes converge under last-writer-wins.  Two stores that
\* have been handed the same set of documents, in whatever order, hold for
\* every key the same value and causal_event, those of the document with
\* the highest causal_event; and merging a document into itself returns
\* Unchanged and changes nothing.
C29_WritesConverge ==
    /\ mem[1].written = mem[2].written =>
          /\ DOMAIN mem[1].store.documents = DOMAIN mem[2].store.documents
          /\ \A k \in DOMAIN mem[1].store.documents :
                /\ mem[1].store.documents[k].value
                      = mem[2].store.documents[k].value
                /\ mem[1].store.documents[k].causal_event
                      = mem[2].store.documents[k].causal_event
                /\ \A d \in mem[1].written :
                      d.key = k =>
                         d.causal_event
                            <= mem[1].store.documents[k].causal_event
    /\ (memCall.op = "merge" /\ memCall.self) =>
          (memCall.result = "Unchanged" /\ ~memCall.changed)

\* C40: the hash of a store is a function of the documents it holds: after
\* any writes and deletes, two stores that hold the same documents have the
\* same hash(), a store emptied by delete and a fresh store included.
C40_HashOfDocuments ==
    \A r1 \in Replicas, r2 \in Replicas :
       mem[r1].store.documents = mem[r2].store.documents =>
          mem[r1].store.store_hash = mem[r2].store.store_hash

(***************************************************************************)
(* Properties of the time source (checked under SpecClock).                *)
(***************************************************************************)

\* The sequences tick() has read so far: those already returned and those
\* held by a thread between its fetch_add and its return.
TickValues ==
    {clockCall.ticks[i].sequence : i \in 1..Len(clockCall.ticks)}
    \cup {clockCall.threads[t].seq :
             t \in {u \in Threads : clockCall.threads[u].pc = "tick"}}

TickCount ==
    Len(clockCall.ticks)
    + Cardinality({u \in Threads : clockCall.threads[u].pc = "tick"})

\* C30: tick returns the current sequence and then advances it by one and
\* now() does not change it: under every interleaving of the threads the n
\* ticks made so far have read n distinct values, exactly 0..n-1, the
\* sequence stands at n, every returned time carries the run id, and the
\* times each thread's now() calls returned never decrease.
C30_TickMonotone ==
    /\ clock = TickCount
    /\ TickValues = 0..(TickCount - 1)
    /\ Cardinality(TickValues) = TickCount
    /\ \A i \in 1..Len(clockCall.ticks) :
           clockCall.ticks[i].run_id = ClockRunId
    /\ \A t \in Threads :
           \A i, j \in 1..Len(clockCall.nows[t]) :
               i <= j => clockCall.nows[t][i].sequence
                            <= clockCall.nows[t][j].sequence

\* Reached: both threads are inside tick() at once, a third tick has
\* returned, and a thread has seen the sequence move between two now()s.
C30_Witness ==
    /\ \A t \in Threads : clockCall.threads[t].pc = "tick"
    /\ Len(clockCall.ticks) >= 1
    /\ \E t \in Threads :
           /\ Len(clockCall.nows[t]) = 2
           /\ clockCall.nows[t][1].sequence < clockCall.nows[t][2].sequence

(***************************************************************************)
(* Properties of divergence detection (checked under SpecDiverge).         *)
(***************************************************************************)

\* The positions below both lengths at which the two logs' event hashes
\* differ, and the shorter of the two lengths.
DifferingPositions(l1, l2) ==
    {p \in 0..(EventLog_len(l1) - 1) :
        /\ p < EventLog_len(l2)
        /\ Event_event_hash(l1.events[p + 1])
              # Event_event_hash(l2.events[p + 1])}

ShorterLen(l1, l2) ==
    IF EventLog_len(l1) <= EventLog_len(l2) THEN EventLog_len(l1)
    ELSE EventLog_len(l2)

\* C32: detect_divergence compares the logs position by position.  It
\* returns the empty list iff the logs have the same length and equal event
\* hashes everywhere; its entries are in strictly increasing position
\* order, one per differing position, the first at the smallest one; and a
\* length mismatch gives exactly one last entry, at min(len1, len2).
C32_DetectDivergence ==
    logCall.op = "detect_divergence" =>
       LET l1 == engines[logCall.self].log
           l2 == engines[logCall.other].log
           result == logCall.result
           differing == DifferingPositions(l1, l2)
           mismatch == EventLog_len(l1) # EventLog_len(l2)
           positions == {result[k].position : k \in 1..Len(result)}
       IN  /\ result = <<>> <=> (~mismatch /\ differing = {})
           /\ \A k \in 1..(Len(result) - 1) :
                  result[k].position < result[k + 1].position
           /\ positions = differing
                          \cup (IF mismatch THEN {ShorterLen(l1, l2)} ELSE {})
           /\ mismatch =>
                 /\ result[Len(result)].position = ShorterLen(l1, l2)
                 /\ result[Len(result)].diff = <<"Different event count">>
           /\ ~mismatch =>
                 \A k \in 1..Len(result) :
                    result[k].diff # <<"Different event count">>

\* Reached: logs of different lengths that also differ at an earlier
\* position, reported as two entries.
C32_Witness ==
    /\ logCall.op = "detect_divergence"
    /\ Len(logCall.result) = 2
    /\ logCall.result[1].position = 0
    /\ logCall.result[2].position = 2
    /\ EventLog_len(engines[logCall.self].log) = 3
    /\ EventLog_len(engines[logCall.other].log) = 2

(***************************************************************************)
(* Properties of the snapshot manager (checked under SpecSnap).            *)
(***************************************************************************)
\* The adds that decide get_snapshot_before(position): those at a position
\* <= position.
AddsBefore(position) ==
    {i \in 1..Len(managerAdds) : managerAdds[i].position <= position}

\* C37: after any sequence of add calls, get_snapshot_before(p) returns the
\* snapshot of the greatest position <= p among those added, the one added
\* last at that position (a later add at a used position replaces the
\* earlier one), and None when no snapshot was added at a position <= p.
C37_SnapshotBefore ==
    managerCall.op = "get_snapshot_before" =>
       LET adds == AddsBefore(managerCall.position)
       IN  IF adds = {} THEN managerCall.result = None
           ELSE \E i \in adds :
                   /\ \A j \in adds :
                         /\ managerAdds[j].position
                               <= managerAdds[i].position
                         /\ managerAdds[j].position
                               = managerAdds[i].position => j <= i
                   /\ managerCall.result = Some(managerAdds[i])

\* A query answered with a snapshot that replaced an earlier one at its
\* position, while a snapshot at a smaller position is stored as well.
C37_Witness ==
    /\ managerCall.op = "get_snapshot_before"
    /\ managerCall.result # None
    /\ \E i, j, k \in 1..Len(managerAdds) :
          /\ i < j
          /\ managerAdds[i].position = managerAdds[j].position
          /\ managerAdds[i].id # managerAdds[j].id
          /\ managerAdds[k].position < managerAdds[j].position
          /\ managerCall.result = Some(managerAdds[j])
          /\ managerCall.position > managerAdds[j].position

SpecState == AgentInit /\ [][AgentNext]_vars

SpecLog == LogInit /\ [][LogNext]_vars

SpecSched == SchedInit /\ [][SchedNextStep]_vars

SpecDag == SchedInit /\ [][DagNext]_vars

SpecPolicy == PolicyInit /\ [][PolicyNext]_vars

SpecPatch == PatchInit /\ [][PatchNext]_vars

SpecPlan == PlanInit /\ [][PlanNext]_vars

SpecStamp == LogInit /\ [][StampNext]_vars

SpecCaps == CapInit /\ [][CapNext]_vars

SpecMem == MemInit /\ [][MemNext]_vars

SpecClock == ClockInit /\ [][ClockNext]_vars

SpecDiverge == DivergeInit /\ [][DivergeNext]_vars


SpecSnap == SnapInit /\ [][SnapNext]_vars

SpecMemDelete == MemInit /\ [][MemDeleteNext]_vars

====
